---- MODULE Spec2Model ----
(***************************************************************************)
(* A model of the search core of auslaw-mcp: the cross-source reconciler   *)
(* (deduplicateResults, mergeSearchResults), the query classifier          *)
(* (isCaseNameQuery), the sort-mode selector (determineSortMode), the      *)
(* title booster (boostTitleMatches), the citation parser                  *)
(* (extractReportedCitation), the result normalizer of searchAustLii,      *)
(* searchJade and the search tool handlers that use them.                  *)
(*                                                                         *)
(* JavaScript values are modelled as follows.  A SearchResult object is a  *)
(* record; its field ref is the object's identity (two objects with equal  *)
(* fields are still two objects), so that Array.prototype.indexOf, which   *)
(* compares references, is record equality.  A string is the sequence of   *)
(* its characters; the members of an enumeration ("case", "jade", "date")  *)
(* are atoms.  The value undefined is Undefined where a string is          *)
(* expected, NotGiven where a member of an enumeration is expected and     *)
(* NoNumber where a number is expected; null and an absent object are the  *)
(* empty sequence, and an object that is present is the sequence of that   *)
(* one object.  Arrays are sequences (1-based, where JavaScript is         *)
(* 0-based); a Map is a function whose domain is its key set.              *)
(***************************************************************************)
EXTENDS Integers, Sequences, FiniteSets, TLC

VARIABLES
    pc,               \* where the call under way stands
    results,          \* deduplicateResults: the array passed in
    austliiResults,   \* mergeSearchResults / tool handler: the AustLII list
    jadeResults,      \* mergeSearchResults / tool handler: the jade.io list
    output,           \* the array the last call returned
    output2,          \* the array a second deduplicateResults call returned
    query,            \* the query string, a sequence of characters
    options,          \* the SearchOptions of the request
    sortMode,         \* what determineSortMode returned
    caseNameQuery,    \* what isCaseNameQuery returned
    includeJade,      \* tool handler: the includeJade flag of the request
    toResolve,        \* searchJade: the candidates whose citation is looked up
    settlements,      \* searchJade: the outcome of each lookup, once it has one
    formatted,        \* tool handler: the list handed to formatSearchResults
    html,             \* searchAustLii: the li elements of the page AustLII answered with
    error,            \* searchAustLii: what its catch block caught
    thrown,           \* searchAustLii: what it rejected with
    inputText,        \* extractReportedCitation: the text passed in
    reportedCitation  \* extractReportedCitation: what it returned

dedupVars == <<results, austliiResults, jadeResults, output, output2>>

sortVars == <<query, options, sortMode, caseNameQuery>>

searchVars == <<includeJade, toResolve, settlements, formatted, html, error, thrown>>

citationVars == <<inputText, reportedCitation>>

vars == <<pc, dedupVars, sortVars, searchVars, citationVars>>

(***************************************************************************)
(* Bounds of the model.                                                    *)
(***************************************************************************)
\* longest result list handed to deduplicateResults / mergeSearchResults
MaxLen == 3

\* most fragments (words, blanks, a "v") a party, "re" or quoted query is made of
MaxWords == 5

\* most fragments (a bracketed year, a court code, a number, blanks) a citation
\* query is made of
MaxCitationParts == 4

\* longest result list of a request in a run of requests (SpecCalls)
MaxCallLen == 2

\* most pieces (whole citations, words, blanks) a text handed to
\* extractReportedCitation is made of
MaxCitations == 3

(***************************************************************************)
(* JavaScript values.                                                      *)
(***************************************************************************)
\* undefined, where a string is expected
Undefined == <<"undefined">>

\* undefined, where a member of an enumeration is expected
NotGiven == "undefined"

\* undefined, where a number is expected (the limit and the article ids of the
\* program are never negative)
NoNumber == -1

\* JavaScript truthiness of an optional string: undefined and "" are falsy.
Truthy(s) == s # Undefined /\ s # <<>>

\* JavaScript truthiness of an optional member of an enumeration
Given(o) == o # NotGiven

(***************************************************************************)
(* SearchResult (the fields the reconciler reads).                         *)
(***************************************************************************)
\* "Mabo", "Re Wakim"
Titles == {<<"M", "a", "b", "o">>, <<"R", "e", " ", "W", "a", "k", "i", "m">>}

\* undefined, "", "[1992] HCA 23", "[2023] HCA 1"
Citations ==
    {Undefined, <<>>,
     <<"[", "1", "9", "9", "2", "]", " ", "H", "C", "A", " ", "2", "3">>,
     <<"[", "2", "0", "2", "3", "]", " ", "H", "C", "A", " ", "1">>}

Sources == {"austlii", "jade"}

\* the type of a search, and of its results
ResultTypes == {"case", "legislation"}

\* the sortBy option of a request
SortByValues == {"relevance", "date", "auto", NotGiven}

SearchResultFields == [title : Titles, neutralCitation : Citations, source : Sources]

\* The array whose i-th element is a fresh object (identity i + base) holding
\* the fields fs[i].
NewObjects(fs, base) ==
    [i \in 1..Len(fs) |->
        [ref |-> base + i, title |-> fs[i].title,
         neutralCitation |-> fs[i].neutralCitation, source |-> fs[i].source]]

\* Every array of at most n distinct SearchResult objects.
ResultArrays(n) ==
    {NewObjects(fs, 0) : fs \in UNION {[1..k -> SearchResultFields] : k \in 0..n}}

(***************************************************************************)
(* Array and Map helpers.                                                  *)
(***************************************************************************)
\* Array.prototype.indexOf: the first index holding x, -1 when there is none.
IndexOf(arr, x) ==
    IF \E i \in 1..Len(arr) : arr[i] = x
    THEN CHOOSE i \in 1..Len(arr) : arr[i] = x /\ \A j \in 1..(i - 1) : arr[j] # x
    ELSE -1

\* new Map()
EmptyMap == [k \in {} |-> Undefined]

\* Map.prototype.has / get / set
MapHas(m, k) == k \in DOMAIN m

MapGet(m, k) == m[k]

MapSet(m, k, v) == [x \in (DOMAIN m) \cup {k} |-> IF x = k THEN v ELSE m[x]]

(***************************************************************************)
(* deduplicateResults and mergeSearchResults.                              *)
(***************************************************************************)
\* A plausible slip: the jade.io result is pushed, the AustLII one stays.
DedupIterPushJade(st, result) ==
    IF ~Truthy(result.neutralCitation)
    THEN [st EXCEPT !.output = Append(@, result)]
    ELSE LET key == result.neutralCitation IN
         IF ~MapHas(st.seen, key)
         THEN [seen |-> MapSet(st.seen, key, result), output |-> Append(st.output, result)]
         ELSE IF result.source = "jade" /\ MapGet(st.seen, key).source # "jade"
              THEN [seen |-> MapSet(st.seen, key, result),
                    output |-> Append(st.output, result)]
              ELSE st

\* A plausible slip: the jade.io result wins even over an earlier jade.io one.
DedupIterLastJade(st, result) ==
    IF ~Truthy(result.neutralCitation)
    THEN [st EXCEPT !.output = Append(@, result)]
    ELSE LET key == result.neutralCitation IN
         IF ~MapHas(st.seen, key)
         THEN [seen |-> MapSet(st.seen, key, result), output |-> Append(st.output, result)]
         ELSE IF result.source = "jade"
              THEN LET idx == IndexOf(st.output, MapGet(st.seen, key)) IN
                   [seen |-> MapSet(st.seen, key, result),
                    output |-> IF idx # -1 THEN [st.output EXCEPT ![idx] = result]
                               ELSE st.output]
              ELSE st

\* A plausible slip: results without a citation are keyed on their title.
DedupIterTitleKey(st, result) ==
    LET key == IF Truthy(result.neutralCitation) THEN result.neutralCitation
               ELSE result.title IN
    IF ~MapHas(st.seen, key)
    THEN [seen |-> MapSet(st.seen, key, result), output |-> Append(st.output, result)]
    ELSE IF result.source = "jade" /\ MapGet(st.seen, key).source # "jade"
         THEN LET idx == IndexOf(st.output, MapGet(st.seen, key)) IN
              [seen |-> MapSet(st.seen, key, result),
               output |-> IF idx # -1 THEN [st.output EXCEPT ![idx] = result]
                          ELSE st.output]
         ELSE st

\* A plausible slip: the replaced AustLII result is removed and the jade.io
\* one appended at the end.
DedupIterMoveToEnd(st, result) ==
    IF ~Truthy(result.neutralCitation)
    THEN [st EXCEPT !.output = Append(@, result)]
    ELSE LET key == result.neutralCitation IN
         IF ~MapHas(st.seen, key)
         THEN [seen |-> MapSet(st.seen, key, result), output |-> Append(st.output, result)]
         ELSE IF result.source = "jade" /\ MapGet(st.seen, key).source # "jade"
              THEN LET existing == MapGet(st.seen, key) IN
                   [seen |-> MapSet(st.seen, key, result),
                    output |-> Append(SelectSeq(st.output, LAMBDA o : o # existing),
                                      result)]
              ELSE st

\* A plausible slip: an off-by-one in the slot that is overwritten.
DedupIterOffByOne(st, result) ==
    IF ~Truthy(result.neutralCitation)
    THEN [st EXCEPT !.output = Append(@, result)]
    ELSE LET key == result.neutralCitation IN
         IF ~MapHas(st.seen, key)
         THEN [seen |-> MapSet(st.seen, key, result), output |-> Append(st.output, result)]
         ELSE IF result.source = "jade" /\ MapGet(st.seen, key).source # "jade"
              THEN LET idx == IndexOf(st.output, MapGet(st.seen, key)) IN
                   [seen |-> MapSet(st.seen, key, result),
                    output |-> IF idx # -1 /\ idx - 1 >= 1
                               THEN [st.output EXCEPT ![idx - 1] = result]
                               ELSE st.output]
              ELSE st

\* One iteration of the for-of loop of deduplicateResults; st holds the
\* locals seen and output.
DedupIter(st, result) ==
    IF ~Truthy(result.neutralCitation)
    THEN \* no citation to deduplicate on: always include
         [st EXCEPT !.output = Append(@, result)]
    ELSE LET key == result.neutralCitation IN
         IF ~MapHas(st.seen, key)
         THEN [seen |-> MapSet(st.seen, key, result), output |-> Append(st.output, result)]
         ELSE IF result.source = "jade" /\ MapGet(st.seen, key).source # "jade"
              THEN \* replace the AustLII result with the jade.io result
                   LET idx == IndexOf(st.output, MapGet(st.seen, key)) IN
                   [seen |-> MapSet(st.seen, key, result),
                    output |-> IF idx # -1 THEN [st.output EXCEPT ![idx] = result]
                               ELSE st.output]
              ELSE \* skip the duplicate
                   st

RECURSIVE DedupLoop(_, _, _)
DedupLoop(rs, i, st) ==
    IF i > Len(rs) THEN st ELSE DedupLoop(rs, i + 1, DedupIter(st, rs[i]))

deduplicateResults(rs) == DedupLoop(rs, 1, [seen |-> EmptyMap, output |-> <<>>]).output

\* A plausible slip: the lists are concatenated in the order of the parameters.
MergeAustLiiFirst(a, j) == deduplicateResults(a \o j)

\* A plausible slip: a jade list with any entry stands for the whole answer.
\* mergeSearchResults, had it deduplicated each list by itself
MergeEachSource(a, j) == deduplicateResults(j) \o deduplicateResults(a)

MergeJadeWhenAny(a, j) ==
    IF Len(j) > 0 THEN deduplicateResults(j) ELSE deduplicateResults(a)

mergeSearchResults(a, j) == deduplicateResults(j \o a)

(***************************************************************************)
(* Strings and regular expressions.                                        *)
(* A string is a sequence of one-character strings.  A regular expression  *)
(* is run as the set of positions its match can have reached: position p   *)
(* stands for "the first p characters are consumed", and each piece of the *)
(* pattern maps the positions before it to the positions after it.         *)
(***************************************************************************)
\* The letters, lower case and upper case.
LowerLetters ==
    {"a", "b", "c", "d", "e", "f", "g", "h", "i", "j", "k", "l", "m", "n",
     "o", "p", "q", "r", "s", "t", "u", "v", "w", "x", "y", "z"}

UpperLetters ==
    {"A", "B", "C", "D", "E", "F", "G", "H", "I", "J", "K", "L", "M", "N",
     "O", "P", "Q", "R", "S", "T", "U", "V", "W", "X", "Y", "Z"}

IsLowerLetter(c) == c \in LowerLetters

IsUpperLetter(c) == c \in UpperLetters

\* \d
IsDigit(c) == c \in {"0", "1", "2", "3", "4", "5", "6", "7", "8", "9"}

\* \w
IsWordChar(c) == IsLowerLetter(c) \/ IsUpperLetter(c) \/ IsDigit(c) \/ c = "_"

\* \s
IsSpace(c) == c \in {" ", "\t", "\n"}

\* The lower-case form of each upper-case letter.
LowerCase ==
    [A |-> "a", B |-> "b", C |-> "c", D |-> "d", E |-> "e", F |-> "f",
     G |-> "g", H |-> "h", I |-> "i", J |-> "j", K |-> "k", L |-> "l",
     M |-> "m", N |-> "n", O |-> "o", P |-> "p", Q |-> "q", R |-> "r",
     S |-> "s", T |-> "t", U |-> "u", V |-> "v", W |-> "w", X |-> "x",
     Y |-> "y", Z |-> "z"]

\* The lower-case form of the character c.
LowerOf(c) == IF IsUpperLetter(c) THEN LowerCase[c] ELSE c

\* The atoms of a pattern: a character class, or a literal character.
Word == <<"class", "\\w">>

Space == <<"class", "\\s">>

Digit == <<"class", "\\d">>

AtoZ == <<"class", "[A-Z]">>

Char(c) == <<"char", c>>

\* Whether the character c matches the atom, with (ignoreCase) or without the
\* i flag.
Matches(c, atom, ignoreCase) ==
    IF atom[1] = "char"
    THEN c = atom[2] \/ (ignoreCase /\ LowerOf(c) = LowerOf(atom[2]))
    ELSE IF atom = Word THEN IsWordChar(c)
    ELSE IF atom = Space THEN IsSpace(c)
    ELSE IF atom = Digit THEN IsDigit(c)
    ELSE IF atom = AtoZ THEN IsUpperLetter(c) \/ (ignoreCase /\ IsLowerLetter(c))
    ELSE FALSE

\* \b at position p of s
AtWordBoundary(s, p) ==
    LET before == p >= 1 /\ IsWordChar(s[p])
        after == p < Len(s) /\ IsWordChar(s[p + 1])
    IN before # after

\* one character matching the atom
One(s, P, atom, ignoreCase) ==
    {p + 1 : p \in {q \in P : q < Len(s) /\ Matches(s[q + 1], atom, ignoreCase)}}

\* atom+
OneOrMore(s, P, atom, ignoreCase) ==
    UNION {{q \in (p + 1)..Len(s) : \A x \in (p + 2)..q : Matches(s[x], atom, ignoreCase)} :
              p \in {r \in P : r < Len(s) /\ Matches(s[r + 1], atom, ignoreCase)}}

\* atom*
ZeroOrMore(s, P, atom, ignoreCase) == P \cup OneOrMore(s, P, atom, ignoreCase)

\* atom?
Optional(s, P, atom, ignoreCase) == P \cup One(s, P, atom, ignoreCase)

\* String.prototype.includes for a single character
IncludesChar(s, c) == \E i \in 1..Len(s) : s[i] = c

(***************************************************************************)
(* isCaseNameQuery and determineSortMode.                                  *)
(***************************************************************************)
\* /\b\w+\s+v\.?\s+\w+/i.test(query)
PartyPattern(q) ==
    LET p0 == {p \in 0..Len(q) : AtWordBoundary(q, p)}
        p1 == OneOrMore(q, p0, Word, TRUE)
        p2 == OneOrMore(q, p1, Space, TRUE)
        p3 == One(q, p2, Char("v"), TRUE)
        p4 == Optional(q, p3, Char("."), TRUE)
        p5 == OneOrMore(q, p4, Space, TRUE)
        p6 == OneOrMore(q, p5, Word, TRUE)
    IN p6 # {}

\* /\b(re|in\s+re)\s+\w+/i.test(query)
RePattern(q) ==
    LET p0 == {p \in 0..Len(q) : AtWordBoundary(q, p)}
        r1 == One(q, p0, Char("r"), TRUE)
        r2 == One(q, r1, Char("e"), TRUE)
        i1 == One(q, p0, Char("i"), TRUE)
        i2 == One(q, i1, Char("n"), TRUE)
        i3 == OneOrMore(q, i2, Space, TRUE)
        i4 == One(q, i3, Char("r"), TRUE)
        i5 == One(q, i4, Char("e"), TRUE)
        p1 == r2 \cup i5
        p2 == OneOrMore(q, p1, Space, TRUE)
        p3 == OneOrMore(q, p2, Word, TRUE)
    IN p3 # {}

\* /\[\d{4}\]\s*[A-Z]+\s*\d+/ from the positions P0, with or without the i
\* flag: the positions a match can end at.
CitationEnds(q, P0, ignoreCase) ==
    LET p1 == One(q, P0, Char("["), ignoreCase)
        d1 == One(q, p1, Digit, ignoreCase)
        d2 == One(q, d1, Digit, ignoreCase)
        d3 == One(q, d2, Digit, ignoreCase)
        d4 == One(q, d3, Digit, ignoreCase)
        p2 == One(q, d4, Char("]"), ignoreCase)
        p3 == ZeroOrMore(q, p2, Space, ignoreCase)
        p4 == OneOrMore(q, p3, AtoZ, ignoreCase)
        p5 == ZeroOrMore(q, p4, Space, ignoreCase)
    IN OneOrMore(q, p5, Digit, ignoreCase)

\* A plausible slip: the i flag left off the citation pattern.
CitationPatternCaseSensitive(q) == CitationEnds(q, 0..Len(q), FALSE) # {}

\* /\[\d{4}\]\s*[A-Z]+\s*\d+/i.test(query)
CitationPattern(q) == CitationEnds(q, 0..Len(q), TRUE) # {}

isCaseNameQuery(q) ==
    IF PartyPattern(q) THEN TRUE
    ELSE IF RePattern(q) THEN TRUE
    ELSE IF CitationPattern(q) THEN TRUE
    ELSE IF IncludesChar(q, "\"") THEN TRUE
    ELSE FALSE

\* A plausible slip: the auto branch taken before the explicit ones.
DetermineSortModeAutoFirst(q, opts) ==
    IF opts.type = "case" /\ isCaseNameQuery(q) THEN "relevance"
    ELSE IF opts.sortBy = "relevance" THEN "relevance"
    ELSE "date"

\* A plausible slip: the named-authority shortcut taken for legislation too.
DetermineSortModeAnyType(q, opts) ==
    IF opts.sortBy = "relevance" THEN "relevance"
    ELSE IF opts.sortBy = "date" THEN "date"
    ELSE IF isCaseNameQuery(q) THEN "relevance"
    ELSE "date"

determineSortMode(q, opts) ==
    IF opts.sortBy = "relevance" THEN "relevance"
    ELSE IF opts.sortBy = "date" THEN "date"
    ELSE IF opts.sortBy = "auto" \/ ~Given(opts.sortBy)
         THEN IF opts.type = "case" /\ isCaseNameQuery(q) THEN "relevance"
              ELSE "date"
         ELSE "date"

(***************************************************************************)
(* String and array methods.                                               *)
(***************************************************************************)
Min(S) == CHOOSE x \in S : \A y \in S : x <= y

Max(S) == CHOOSE x \in S : \A y \in S : x >= y

\* String.prototype.trim
Trim(s) ==
    LET inked == {i \in 1..Len(s) : ~IsSpace(s[i])} IN
    IF inked = {} THEN <<>> ELSE SubSeq(s, Min(inked), Max(inked))

\* String.prototype.toLowerCase
ToLowerCase(s) == [i \in 1..Len(s) |-> LowerOf(s[i])]

\* String.prototype.startsWith
StartsWith(s, t) == Len(t) <= Len(s) /\ SubSeq(s, 1, Len(t)) = t

RECURSIVE Split(_, _)
\* String.prototype.split on the one-character separator c
Split(s, c) ==
    IF \A i \in 1..Len(s) : s[i] # c THEN <<s>>
    ELSE LET a == Min({i \in 1..Len(s) : s[i] = c}) IN
         <<SubSeq(s, 1, a - 1)>> \o Split(SubSeq(s, a + 1, Len(s)), c)

RECURSIVE SplitSpaces(_)
\* s.split(/\s+/)
SplitSpaces(s) ==
    IF \A i \in 1..Len(s) : ~IsSpace(s[i]) THEN <<s>>
    ELSE LET a == Min({i \in 1..Len(s) : IsSpace(s[i])})
             rest == {i \in (a + 1)..Len(s) : ~IsSpace(s[i])}
             b == IF rest = {} THEN Len(s) + 1 ELSE Min(rest)
         IN <<SubSeq(s, 1, a - 1)>> \o SplitSpaces(SubSeq(s, b, Len(s)))

RECURSIVE Join(_, _)
\* Array.prototype.join
Join(parts, sep) ==
    IF parts = <<>> THEN <<>>
    ELSE IF Len(parts) = 1 THEN parts[1]
    ELSE parts[1] \o sep \o Join(Tail(parts), sep)

\* arr.slice(0, n), n >= 0
Slice(arr, n) == SubSeq(arr, 1, Min({n, Len(arr)}))

\* The positions after the literal text lit, matched from the positions P.
Literal(s, P, lit, ignoreCase) ==
    {p + Len(lit) : p \in {q \in P :
        /\ q + Len(lit) <= Len(s)
        /\ \A i \in 1..Len(lit) : Matches(s[q + i], Char(lit[i]), ignoreCase)}}

\* String.prototype.includes
Includes(s, t) == Literal(s, 0..(Len(s) - Len(t)), t, FALSE) # {}

(***************************************************************************)
(* application/x-www-form-urlencoded and percent-encoding, for the         *)
(* characters that occur in the model's URLs and citations.                *)
(***************************************************************************)
\* The characters that are percent-encoded, each with its code.
PercentCodes ==
    {<<" ", <<"%", "2", "0">>>>, <<"\"", <<"%", "2", "2">>>>,
     <<"%", <<"%", "2", "5">>>>, <<"&", <<"%", "2", "6">>>>,
     <<"(", <<"%", "2", "8">>>>, <<")", <<"%", "2", "9">>>>,
     <<"+", <<"%", "2", "B">>>>, <<",", <<"%", "2", "C">>>>,
     <<"/", <<"%", "2", "F">>>>, <<":", <<"%", "3", "A">>>>,
     <<"=", <<"%", "3", "D">>>>, <<"?", <<"%", "3", "F">>>>,
     <<"[", <<"%", "5", "B">>>>, <<"]", <<"%", "5", "D">>>>}

PercentEncode(c) == (CHOOSE e \in PercentCodes : e[1] = c)[2]

\* Whether the three characters t are the code of a character (the hex digits
\* in either case).
IsPercentCode(t) == \E e \in PercentCodes : ToLowerCase(e[2]) = ToLowerCase(t)

PercentDecode(t) == (CHOOSE e \in PercentCodes : ToLowerCase(e[2]) = ToLowerCase(t))[1]

IsAlphanumeric(c) == IsLowerLetter(c) \/ IsUpperLetter(c) \/ IsDigit(c)

RECURSIVE FormDecode(_)
\* The decoding URLSearchParams applies to a name or a value it parses.
FormDecode(s) ==
    IF s = <<>> THEN <<>>
    ELSE IF s[1] = "+" THEN <<" ">> \o FormDecode(Tail(s))
    ELSE IF s[1] = "%" /\ Len(s) >= 3 /\ IsPercentCode(SubSeq(s, 1, 3))
         THEN <<PercentDecode(SubSeq(s, 1, 3))>> \o FormDecode(SubSeq(s, 4, Len(s)))
    ELSE <<s[1]>> \o FormDecode(Tail(s))

RECURSIVE FormEncode(_)
\* The encoding URLSearchParams.prototype.toString applies to a name or a
\* value.
FormEncode(s) ==
    IF s = <<>> THEN <<>>
    ELSE IF s[1] = " " THEN <<"+">> \o FormEncode(Tail(s))
    ELSE IF IsAlphanumeric(s[1]) \/ s[1] \in {"*", "-", ".", "_"}
         THEN <<s[1]>> \o FormEncode(Tail(s))
    ELSE PercentEncode(s[1]) \o FormEncode(Tail(s))

RECURSIVE encodeURIComponent(_)
encodeURIComponent(s) ==
    IF s = <<>> THEN <<>>
    ELSE IF IsAlphanumeric(s[1]) \/ s[1] \in {"-", "_", ".", "!", "~", "*", "'", "(", ")"}
         THEN <<s[1]>> \o encodeURIComponent(Tail(s))
    ELSE PercentEncode(s[1]) \o encodeURIComponent(Tail(s))

\* One "name=value" piece of a query string, as URLSearchParams parses it.
ParsePair(piece) ==
    LET eq == {i \in 1..Len(piece) : piece[i] = "="} IN
    IF eq = {} THEN <<FormDecode(piece), <<>>>>
    ELSE <<FormDecode(SubSeq(piece, 1, Min(eq) - 1)),
           FormDecode(SubSeq(piece, Min(eq) + 1, Len(piece)))>>

\* new URLSearchParams(queryString): the list of <<name, value>> pairs
ParseQuery(queryString) ==
    LET pieces == SelectSeq(Split(queryString, "&"), LAMBDA x : x # <<>>) IN
    [i \in 1..Len(pieces) |-> ParsePair(pieces[i])]

\* URLSearchParams.prototype.set on a list that was built with set alone
ParamsSet(params, key, val) ==
    IF \E j \in 1..Len(params) : params[j][1] = key
    THEN [j \in 1..Len(params) |-> IF params[j][1] = key THEN <<key, val>> ELSE params[j]]
    ELSE Append(params, <<key, val>>)

\* URLSearchParams.prototype.toString
ParamsToString(params) ==
    Join([i \in 1..Len(params) |->
             FormEncode(params[i][1]) \o <<"=">> \o FormEncode(params[i][2])], <<"&">>)

(***************************************************************************)
(* searchAustLii: the result normalizer.                                   *)
(* An li element of the response is a record of the text of its first      *)
(* link, of that link's href attribute (Undefined when the link has none,  *)
(* or the element has no link), of the text of its meta paragraph          *)
(* (metaText) and of the text of the first link of that paragraph (court,  *)
(* Undefined when it has none).  A SearchResult carries the fields title,  *)
(* neutralCitation, reportedCitation, year, url, source, summary and type; *)
(* citation (always undefined) and jurisdiction are not part of the        *)
(* record.                                                                 *)
(***************************************************************************)
\* new Set(["stem", "synonyms", "num", "mask_path", "meta", "query", "method"])
searchDecorations ==
    {<<"s", "t", "e", "m">>,
     <<"s", "y", "n", "o", "n", "y", "m", "s">>,
     <<"n", "u", "m">>,
     <<"m", "a", "s", "k", "_", "p", "a", "t", "h">>,
     <<"m", "e", "t", "a">>,
     <<"q", "u", "e", "r", "y">>,
     <<"m", "e", "t", "h", "o", "d">>}

RECURSIVE Preserve(_, _, _)
\* The loop over the parsed parameters, from the i-th on: preservedParams
\* when it ends.
Preserve(params, i, preservedParams) ==
    IF i > Len(params) THEN preservedParams
    ELSE Preserve(params, i + 1,
             IF params[i][1] \notin searchDecorations
             THEN ParamsSet(preservedParams, params[i][1], params[i][2])
             ELSE preservedParams)

\* cleanUrl, for the relative url
CleanUrl(url) ==
    LET Rejoined(basePath, remaining) ==
            IF remaining # <<>> THEN basePath \o <<"?">> \o remaining ELSE basePath
        Cleaned(parts) ==
            IF Len(parts) >= 2 /\ parts[2] # <<>>
            THEN Rejoined(parts[1], ParamsToString(Preserve(ParseQuery(parts[2]), 1, <<>>)))
            ELSE parts[1]
    IN Cleaned(Split(url, "?"))

\* url, for the href attribute of the link
AbsoluteUrl(href) ==
    LET url == IF Truthy(href) THEN href ELSE <<>> IN
    IF url # <<>> /\ ~StartsWith(url, <<"h", "t", "t", "p">>)
    THEN \* "https://www.austlii.edu.au"
         <<"h", "t", "t", "p", "s", ":", "/", "/", "w", "w", "w", ".", "a", "u", "s",
           "t", "l", "i", "i", ".", "e", "d", "u", ".", "a", "u">> \o CleanUrl(url)
    ELSE url

\* A match of a pattern in a string is a pair <<p, e>>: the match is of the
\* characters p + 1 .. e.  Of the matches in spans, the one String.match
\* finds when the first of them is unique up to its last repeated piece: the
\* leftmost, and the longest of those that start there; <<>> for no match.
Leftmost(spans) ==
    IF spans = {} THEN <<>>
    ELSE LET p == Min({m[1] : m \in spans}) IN
         <<p, Max({m[2] : m \in {n \in spans : n[1] = p}})>>

\* For the match m of a citation pattern in title, the matched text and the
\* first group (the four digits after the bracket); <<>> for null.
CitationGroups(title, m) ==
    IF m = <<>> THEN <<>>
    ELSE <<SubSeq(title, m[1] + 1, m[2]), SubSeq(title, m[1] + 2, m[1] + 5)>>

\* title.match(/\[(\d{4})\]\s*([A-Z]+)\s*(\d+)/): each repeated piece is
\* followed by a piece of another character class, so the match from a
\* position is unique up to its last digits, of which the greedy \d+ takes
\* all.
CitationMatch(title) ==
    CitationGroups(title, Leftmost(
        UNION {{<<p, e>> : e \in CitationEnds(title, {p}, FALSE)} : p \in 0..Len(title)}))

\* The reported-citation pattern, had the volume number been optional.
ReportedCitationEndsNoVolume(s, P0, open, close) ==
    LET p1 == One(s, P0, Char(open), FALSE)
        d1 == One(s, p1, Digit, FALSE)
        d2 == One(s, d1, Digit, FALSE)
        d3 == One(s, d2, Digit, FALSE)
        d4 == One(s, d3, Digit, FALSE)
        p2 == One(s, d4, Char(close), FALSE)
        p3 == OneOrMore(s, p2, Space, FALSE)
        p4 == OneOrMore(s, p3, Digit, FALSE)
        p5 == p3 \cup OneOrMore(s, p4, Space, FALSE)
        l1 == One(s, p5, AtoZ, FALSE)
        l2 == One(s, l1, AtoZ, FALSE)
        l3 == Optional(s, l2, AtoZ, FALSE)
        l4 == Optional(s, l3, AtoZ, FALSE)
        l5 == Optional(s, l4, AtoZ, FALSE)
        l6 == Optional(s, l5, AtoZ, FALSE)
        p6 == OneOrMore(s, l6, Space, FALSE)
    IN OneOrMore(s, p6, Digit, FALSE)

\* /[(\[](\d{4})[)\]]\s+(\d+)\s+([A-Z]{2,6})\s+(\d+)/ with the brackets open
\* and close, from the positions P0: the positions a match can end at.
ReportedCitationEnds(s, P0, open, close) ==
    LET p1 == One(s, P0, Char(open), FALSE)
        d1 == One(s, p1, Digit, FALSE)
        d2 == One(s, d1, Digit, FALSE)
        d3 == One(s, d2, Digit, FALSE)
        d4 == One(s, d3, Digit, FALSE)
        p2 == One(s, d4, Char(close), FALSE)
        p3 == OneOrMore(s, p2, Space, FALSE)
        p4 == OneOrMore(s, p3, Digit, FALSE)
        p5 == OneOrMore(s, p4, Space, FALSE)
        l1 == One(s, p5, AtoZ, FALSE)
        l2 == One(s, l1, AtoZ, FALSE)
        l3 == Optional(s, l2, AtoZ, FALSE)
        l4 == Optional(s, l3, AtoZ, FALSE)
        l5 == Optional(s, l4, AtoZ, FALSE)
        l6 == Optional(s, l5, AtoZ, FALSE)
        p6 == OneOrMore(s, l6, Space, FALSE)
    IN OneOrMore(s, p6, Digit, FALSE)

\* text.match(pattern)?.[0] for the pattern with the brackets open and close:
\* every repeated piece but the last is followed by a piece of another
\* character class, so the match from a position is unique up to its last
\* digits, of which the greedy \d+ takes all.  Undefined for no match.
ReportedCitationMatch(text, open, close) ==
    LET Matched(m) == IF m = <<>> THEN Undefined ELSE SubSeq(text, m[1] + 1, m[2]) IN
    Matched(Leftmost(UNION {{<<p, e>> : e \in ReportedCitationEnds(text, {p}, open, close)} :
                               p \in 0..Len(text)}))

\* The loop over the two patterns: the round-bracket pattern first.
extractReportedCitation(text) ==
    LET FirstOf(round) ==
            IF round # Undefined THEN round ELSE ReportedCitationMatch(text, "[", "]")
    IN FirstOf(ReportedCitationMatch(text, "(", ")"))

\* metaText.match(/(\d{1,2}\s+\w+\s+\d{4})/)?.[1]: the number of digits the
\* match starts with, and each run of blanks and of word characters in it, is
\* decided by the character that has to follow, so the match from a position
\* is unique.  Undefined for no match.
DateMatch(metaText) ==
    LET Ends(P0) ==
            LET d1 == One(metaText, P0, Digit, FALSE)
                d2 == Optional(metaText, d1, Digit, FALSE)
                p1 == OneOrMore(metaText, d2, Space, FALSE)
                p2 == OneOrMore(metaText, p1, Word, FALSE)
                p3 == OneOrMore(metaText, p2, Space, FALSE)
                y1 == One(metaText, p3, Digit, FALSE)
                y2 == One(metaText, y1, Digit, FALSE)
                y3 == One(metaText, y2, Digit, FALSE)
            IN One(metaText, y3, Digit, FALSE)
        Matched(m) == IF m = <<>> THEN Undefined ELSE SubSeq(metaText, m[1] + 1, m[2])
    IN Matched(Leftmost(UNION {{<<p, e>> : e \in Ends({p})} : p \in 0..Len(metaText)}))

\* summary, for the text of the court link (Undefined without a link) and the
\* date found in the meta paragraph
Summary(courtText, dateStr) ==
    LET WithDate(court) ==
            IF Truthy(court)
            THEN court \o (IF Truthy(dateStr) THEN <<" ", "-", " ">> \o dateStr ELSE <<>>)
            ELSE dateStr
    IN WithDate(IF courtText # Undefined THEN Trim(courtText) ELSE Undefined)

\* What the callback of $("li[data-count].multi").each pushes for the element
\* li: nothing, or one SearchResult (a new object, of identity ref).
ScrapeElement(li, type, ref) ==
    LET NewResult(title, url, citationMatch) ==
            [ref |-> ref,
             title |-> title,
             neutralCitation |-> IF citationMatch # <<>> THEN citationMatch[1] ELSE Undefined,
             reportedCitation |-> extractReportedCitation(title),
             year |-> IF citationMatch # <<>> THEN citationMatch[2] ELSE Undefined,
             url |-> url,
             source |-> "austlii",
             summary |-> Summary(li.court, DateMatch(li.metaText)),
             type |-> type]
        Pushed(title, url) ==
            IF title # <<>> /\ url # <<>>
            THEN \* "/journals/", "/cases/", "/legis/"
                 IF Includes(url, <<"/", "j", "o", "u", "r", "n", "a", "l", "s", "/">>) THEN <<>>
                 ELSE IF type = "case"
                             /\ ~Includes(url, <<"/", "c", "a", "s", "e", "s", "/">>) THEN <<>>
                 ELSE IF type = "legislation"
                             /\ ~Includes(url, <<"/", "l", "e", "g", "i", "s", "/">>) THEN <<>>
                 ELSE <<NewResult(title, url, CitationMatch(title))>>
            ELSE <<>>
    IN Pushed(Trim(li.text), AbsoluteUrl(li.href))

(***************************************************************************)
(* boostTitleMatches: the score of a result.                               *)
(***************************************************************************)
\* s.toLowerCase().replace(/[^\w\s]/g, " ").trim()
Normalized(s) ==
    Trim([i \in 1..Len(s) |->
             IF IsWordChar(LowerOf(s[i])) \/ IsSpace(s[i]) THEN LowerOf(s[i]) ELSE " "])

\* The positions after \s+v\.?\s+, matched from the positions P.
VersusEnds(q, P) ==
    LET p1 == OneOrMore(q, P, Space, TRUE)
        p2 == One(q, p1, Char("v"), TRUE)
        p3 == Optional(q, p2, Char("."), TRUE)
    IN OneOrMore(q, p3, Space, TRUE)

\* query.match(/(\w+)\s+v\.?\s+(\w+)/i): <<>> for null, and for a match its
\* two groups.  A match is <<p, e1, s2, e2>>: it starts after p and its groups
\* are the characters p + 1 .. e1 and s2 + 1 .. e2.  The match found is the
\* leftmost, each repeated piece in turn being as long as the rest of the
\* pattern allows.
PartyMatch(q) ==
    LET First(spans) ==
            LET p == Min({m[1] : m \in spans})
                e1 == Max({m[2] : m \in {n \in spans : n[1] = p}})
                s2 == Max({m[3] : m \in {n \in spans : n[1] = p /\ n[2] = e1}})
                e2 == Max({m[4] : m \in {n \in spans :
                                            n[1] = p /\ n[2] = e1 /\ n[3] = s2}})
            IN <<p, e1, s2, e2>>
        Groups(m) == <<SubSeq(q, m[1] + 1, m[2]), SubSeq(q, m[3] + 1, m[4])>>
        Found(spans) == IF spans = {} THEN <<>> ELSE Groups(First(spans))
    IN Found(UNION {UNION {UNION {{<<p, e1, s2, e2>> :
                                      e2 \in OneOrMore(q, {s2}, Word, TRUE)} :
                                     s2 \in VersusEnds(q, {e1})} :
                              e1 \in OneOrMore(q, {p}, Word, TRUE)} :
                       p \in 0..Len(q)})

\* matchingWords * 10
WordScore(normalizedTitle, normalizedQuery) ==
    LET words == SplitSpaces(normalizedQuery)
        queryWords == {words[i] : i \in {j \in 1..Len(words) : Len(words[j]) > 2}}
        titleWords == SplitSpaces(normalizedTitle)
        matchingWords ==
            Cardinality({i \in 1..Len(titleWords) :
                            Len(titleWords[i]) > 2 /\ titleWords[i] \in queryWords})
    IN matchingWords * 10

\* the bonus for the query being a substring of the title
SubstringBonus(normalizedTitle, normalizedQuery) ==
    IF Includes(normalizedTitle, normalizedQuery) THEN 50 ELSE 0

\* the bonus for the title starting with the first three words of the query
StartBonus(normalizedTitle, normalizedQuery) ==
    LET queryStart == Join(Slice(SplitSpaces(normalizedQuery), 3), <<" ">>) IN
    IF StartsWith(normalizedTitle, queryStart) /\ Len(queryStart) > 5 THEN 30 ELSE 0

\* the bonus for the parties, had it been the same for one party and for both
\* the party bonus, had it been given for the parties of the title whatever
\* the shape of the query
PartyBonusAnyShape(normalizedTitle, q) ==
    LET words == SplitSpaces(Normalized(q))
        Bonus(party1Lower, party2Lower) ==
            IF Includes(normalizedTitle, party1Lower)
                   /\ Includes(normalizedTitle, party2Lower)
            THEN 100
            ELSE IF Includes(normalizedTitle, party1Lower)
                        \/ Includes(normalizedTitle, party2Lower)
                 THEN 20
                 ELSE 0
    IN IF Len(words) >= 2 THEN Bonus(words[1], words[Len(words)]) ELSE 0

PartyBonusFlat(normalizedTitle, q) ==
    LET Bonus(party1Lower, party2Lower) ==
            IF Includes(normalizedTitle, party1Lower)
                   \/ Includes(normalizedTitle, party2Lower)
            THEN 20
            ELSE 0
        Matched(vMatch) ==
            IF vMatch # <<>> /\ vMatch[1] # <<>> /\ vMatch[2] # <<>>
            THEN Bonus(ToLowerCase(vMatch[1]), ToLowerCase(vMatch[2]))
            ELSE 0
    IN Matched(PartyMatch(q))

\* the bonus for the parties of an "X v Y" query
PartyBonus(normalizedTitle, q) ==
    LET Bonus(party1Lower, party2Lower) ==
            IF Includes(normalizedTitle, party1Lower)
                   /\ Includes(normalizedTitle, party2Lower)
            THEN 100
            ELSE IF Includes(normalizedTitle, party1Lower)
                        \/ Includes(normalizedTitle, party2Lower)
                 THEN 20
                 ELSE 0
        Matched(vMatch) ==
            IF vMatch # <<>> /\ vMatch[1] # <<>> /\ vMatch[2] # <<>>
            THEN Bonus(ToLowerCase(vMatch[1]), ToLowerCase(vMatch[2]))
            ELSE 0
    IN Matched(PartyMatch(q))

\* score, for a result of the given title
Score(title, q) ==
    LET Sum(normalizedTitle, normalizedQuery) ==
            WordScore(normalizedTitle, normalizedQuery)
                + SubstringBonus(normalizedTitle, normalizedQuery)
                + StartBonus(normalizedTitle, normalizedQuery)
                + PartyBonus(normalizedTitle, q)
    IN Sum(Normalized(title), Normalized(q))

(***************************************************************************)
(* jade.io: URLs, page titles, citation lookup.                            *)
(***************************************************************************)
\* "https://jade.io/article"
JADE_ARTICLE_URL == <<"h", "t", "t", "p", "s", ":", "/", "/", "j", "a", "d", "e", ".", "i", "o", "/", "a", "r", "t", "i", "c", "l", "e">>

\* "https://jade.io/search"
JADE_SEARCH_URL == <<"h", "t", "t", "p", "s", ":", "/", "/", "j", "a", "d", "e", ".", "i", "o", "/", "s", "e", "a", "r", "c", "h">>

\* "BarNet Jade - Find recent Australian legal decisions"
JADE_GENERIC_TITLE ==
    <<"B", "a", "r", "N", "e", "t", " ", "J", "a", "d", "e", " ", "-", " ",
      "F", "i", "n", "d", " ", "r", "e", "c", "e", "n", "t", " ", "A", "u",
      "s", "t", "r", "a", "l", "i", "a", "n", " ", "l", "e", "g", "a", "l",
      " ", "d", "e", "c", "i", "s", "i", "o", "n", "s">>

\* most results with a neutral citation in an answer of AustLII to searchJade
MaxCandidates == 6

\* a ceiling no answer of AustLII reaches
JadeResolutionsUncapped == MaxCandidates + 1

MAX_JADE_RESOLUTIONS == 5

DigitChars == <<"0", "1", "2", "3", "4", "5", "6", "7", "8", "9">>

RECURSIVE ParseInt(_)
\* parseInt(s, 10), for a string of digits
ParseInt(s) ==
    IF s = <<>> THEN 0
    ELSE ParseInt(SubSeq(s, 1, Len(s) - 1)) * 10
             + (CHOOSE d \in 0..9 : DigitChars[d + 1] = s[Len(s)])

RECURSIVE NumberToString(_)
\* `${n}`, for a natural number
NumberToString(n) ==
    IF n < 10 THEN <<DigitChars[n + 1]>>
    ELSE NumberToString(n \div 10) \o <<DigitChars[(n % 10) + 1]>>

\* new URL(url) does not throw: the model's URLs are valid when they have the
\* scheme http or https.
IsValidUrl(url) ==
    \/ StartsWith(url, <<"h", "t", "t", "p", ":", "/", "/">>)
    \/ StartsWith(url, <<"h", "t", "t", "p", "s", ":", "/", "/">>)

\* new URL(url).searchParams.get("id"): the first value of the parameter id
\* in the query part of the url, Undefined when there is none.
IdParam(url) ==
    LET QueryPart(beforeHash) ==
            IF \A i \in 1..Len(beforeHash) : beforeHash[i] # "?" THEN <<>>
            ELSE SubSeq(beforeHash,
                        Min({i \in 1..Len(beforeHash) : beforeHash[i] = "?"}) + 1,
                        Len(beforeHash))
        Get(params) ==
            IF \A i \in 1..Len(params) : params[i][1] # <<"i", "d">> THEN Undefined
            ELSE params[Min({i \in 1..Len(params) : params[i][1] = <<"i", "d">>})][2]
    IN Get(ParseQuery(QueryPart(Split(url, "#")[1])))

\* The digits of the first /\/article\/(\d+)/ match in url, <<>> for no match.
ArticleDigits(url) ==
    LET lit == <<"/", "a", "r", "t", "i", "c", "l", "e", "/">>
        Group(m) == IF m = <<>> THEN <<>> ELSE SubSeq(url, m[1] + Len(lit) + 1, m[2])
    IN Group(Leftmost(
           UNION {{<<p, e>> : e \in OneOrMore(url, Literal(url, {p}, lit, FALSE),
                                              Digit, FALSE)} :
                     p \in 0..Len(url)}))

extractArticleId(url) ==
    LET FromParam(idParam) ==
            IF Truthy(idParam) /\ \A i \in 1..Len(idParam) : IsDigit(idParam[i])
            THEN ParseInt(idParam)
            ELSE NoNumber
        FromPath(digits) ==
            IF digits # <<>> THEN ParseInt(digits)
            ELSE IF IsValidUrl(url) THEN FromParam(IdParam(url))
            ELSE NoNumber
    IN FromPath(ArticleDigits(url))

buildArticleUrl(articleId) == JADE_ARTICLE_URL \o <<"/">> \o NumberToString(articleId)

buildSearchUrl(q) == JADE_SEARCH_URL \o <<"/">> \o encodeURIComponent(q)

\* The positions after /\[(\d{4})\]\s+([A-Z]+(?:\s+[A-Z]+)?)\s+(\d+)/
\* (NEUTRAL_CITATION_RE), matched from the positions P.
NeutralCitationEnds(s, P) ==
    LET p1 == One(s, P, Char("["), FALSE)
        d1 == One(s, p1, Digit, FALSE)
        d2 == One(s, d1, Digit, FALSE)
        d3 == One(s, d2, Digit, FALSE)
        d4 == One(s, d3, Digit, FALSE)
        p2 == One(s, d4, Char("]"), FALSE)
        p3 == OneOrMore(s, p2, Space, FALSE)
        p4 == OneOrMore(s, p3, AtoZ, FALSE)
        p5 == p4 \cup OneOrMore(s, OneOrMore(s, p4, Space, FALSE), AtoZ, FALSE)
        p6 == OneOrMore(s, p5, Space, FALSE)
    IN OneOrMore(s, p6, Digit, FALSE)

\* title.match(NEUTRAL_CITATION_RE): <<>> for null, and for a match the
\* matched text and the first group (leftmost match, all of the last digits).
NeutralCitationMatch(title) ==
    CitationGroups(title, Leftmost(
        UNION {{<<p, e>> : e \in NeutralCitationEnds(title, {p})} : p \in 0..Len(title)}))

\* rawTitle.replace(/\s*-\s*BarNet Jade\s*$/i, "")
StripJadeSuffix(rawTitle) ==
    LET SuffixEnds(p) ==
            LET p1 == ZeroOrMore(rawTitle, {p}, Space, TRUE)
                p2 == One(rawTitle, p1, Char("-"), TRUE)
                p3 == ZeroOrMore(rawTitle, p2, Space, TRUE)
                p4 == Literal(rawTitle, p3,
                              <<"B", "a", "r", "N", "e", "t", " ", "J", "a", "d", "e">>, TRUE)
            IN ZeroOrMore(rawTitle, p4, Space, TRUE)
        Stripped(starts) ==
            IF starts = {} THEN rawTitle ELSE SubSeq(rawTitle, 1, Min(starts))
    IN Stripped({p \in 0..Len(rawTitle) : Len(rawTitle) \in SuffixEnds(p)})

\* parseTitleMetadata, without the jurisdiction
parseTitleMetadata(rawTitle) ==
    LET Metadata(title, citationMatch) ==
            IF citationMatch # <<>>
            THEN [title |-> title, neutralCitation |-> citationMatch[1],
                  year |-> citationMatch[2]]
            ELSE [title |-> title, neutralCitation |-> Undefined, year |-> Undefined]
        Parsed(title) == Metadata(title, NeutralCitationMatch(title))
    IN Parsed(Trim(StripJadeSuffix(rawTitle)))

RECURSIVE CollapseSpaces(_)
\* s.replace(/\s+/g, " ")
CollapseSpaces(s) ==
    IF s = <<>> THEN <<>>
    ELSE IF IsSpace(s[1])
         THEN LET rest == {i \in 2..Len(s) : ~IsSpace(s[i])}
                  b == IF rest = {} THEN Len(s) + 1 ELSE Min(rest)
              IN <<" ">> \o CollapseSpaces(SubSeq(s, b, Len(s)))
         ELSE <<s[1]>> \o CollapseSpaces(Tail(s))

\* searchJadeByCitation, given the response to its request: the content of
\* the first title element of the page (Undefined when the page has none) and
\* the address the request was redirected to (Undefined when that is not
\* known).  The value is <<>> for undefined, else the one JadeArticle.
searchJadeByCitation(citation, response) ==
    LET Article(articleId, parsed, finalUrl) ==
            [id |-> IF articleId = NoNumber THEN 0 ELSE articleId,
             title |-> parsed.title,
             neutralCitation |-> parsed.neutralCitation,
             year |-> parsed.year,
             url |-> IF articleId # NoNumber /\ articleId # 0
                     THEN buildArticleUrl(articleId) ELSE finalUrl,
             accessible |-> TRUE]
        Resolved(rawTitle, finalUrl) ==
            IF ~Truthy(rawTitle) \/ StartsWith(rawTitle, JADE_GENERIC_TITLE) THEN <<>>
            ELSE <<Article(extractArticleId(finalUrl), parseTitleMetadata(rawTitle),
                           finalUrl)>>
    IN Resolved(IF response.title = Undefined THEN Undefined
                ELSE Trim(CollapseSpaces(response.title)),
                IF response.responseUrl # Undefined THEN response.responseUrl
                ELSE buildSearchUrl(citation))

\* articleToSearchResult, the new object having identity ref
articleToSearchResult(article, type, ref) ==
    [ref |-> ref,
     title |-> article.title,
     neutralCitation |-> article.neutralCitation,
     year |-> article.year,
     url |-> article.url,
     source |-> "jade",
     type |-> type]

(***************************************************************************)
(* The inputs of the search tools in the model, and the functions above    *)
(* on them.  Each function is evaluated once on each of these inputs and   *)
(* its value stored; the operators Stored... give the stored value.  They  *)
(* have no value for any other input, and the model never asks for one.    *)
(***************************************************************************)
\* The li elements AustLII answers with: the text of the first link and its
\* href attribute, the text of the first link of the meta paragraph and the
\* text of that paragraph.
Elements ==
    {\* a case with a neutral citation, and search decorations in its href:
     \* "R v Tang [2008] HCA 39",
     \* "/au/cases/cth/HCA/2008/39.html?stem=0&query=tang",
     \* "High Court of Australia", "High Court of Australia 28 August 2008"
     [text |->
    <<"R", " ", "v", " ", "T", "a", "n", "g", " ", "[", "2", "0", "0", "8",
      "]", " ", "H", "C", "A", " ", "3", "9">>,
      href |->
    <<"/", "a", "u", "/", "c", "a", "s", "e", "s", "/", "c", "t", "h", "/",
      "H", "C", "A", "/", "2", "0", "0", "8", "/", "3", "9", ".", "h", "t",
      "m", "l", "?", "s", "t", "e", "m", "=", "0", "&", "q", "u", "e", "r",
      "y", "=", "t", "a", "n", "g">>,
      court |->
    <<"H", "i", "g", "h", " ", "C", "o", "u", "r", "t", " ", "o", "f", " ",
      "A", "u", "s", "t", "r", "a", "l", "i", "a">>,
      metaText |->
    <<"H", "i", "g", "h", " ", "C", "o", "u", "r", "t", " ", "o", "f", " ",
      "A", "u", "s", "t", "r", "a", "l", "i", "a", " ", "2", "8", " ", "A",
      "u", "g", "u", "s", "t", " ", "2", "0", "0", "8">>],
     \* a case without a citation and without a meta paragraph:
     \* " Re Wakim ", "/au/cases/cth/HCA/1999/27.html"
     [text |->
    <<" ", "R", "e", " ", "W", "a", "k", "i", "m", " ">>,
      href |->
    <<"/", "a", "u", "/", "c", "a", "s", "e", "s", "/", "c", "t", "h", "/",
      "H", "C", "A", "/", "1", "9", "9", "9", "/", "2", "7", ".", "h", "t",
      "m", "l">>,
      court |-> Undefined, metaText |-> <<>>],
     \* a journal article: "Tang and slavery", "/au/journals/MULR/2009/3.html"
     [text |->
    <<"T", "a", "n", "g", " ", "a", "n", "d", " ", "s", "l", "a", "v", "e",
      "r", "y">>,
      href |->
    <<"/", "a", "u", "/", "j", "o", "u", "r", "n", "a", "l", "s", "/", "M",
      "U", "L", "R", "/", "2", "0", "0", "9", "/", "3", ".", "h", "t", "m",
      "l">>,
      court |-> Undefined, metaText |-> <<>>],
     \* an Act, with an absolute href and a date in its meta paragraph:
     \* "Criminal Code Act 1995",
     \* "https://www.austlii.edu.au/au/legis/cth/consol_act/cca1995115/",
     \* "1 January 1997"
     [text |->
    <<"C", "r", "i", "m", "i", "n", "a", "l", " ", "C", "o", "d", "e", " ",
      "A", "c", "t", " ", "1", "9", "9", "5">>,
      href |->
    <<"h", "t", "t", "p", "s", ":", "/", "/", "w", "w", "w", ".", "a", "u",
      "s", "t", "l", "i", "i", ".", "e", "d", "u", ".", "a", "u", "/", "a",
      "u", "/", "l", "e", "g", "i", "s", "/", "c", "t", "h", "/", "c", "o",
      "n", "s", "o", "l", "_", "a", "c", "t", "/", "c", "c", "a", "1", "9",
      "9", "5", "1", "1", "5", "/">>,
      court |-> Undefined,
      metaText |->
    <<"1", " ", "J", "a", "n", "u", "a", "r", "y", " ", "1", "9", "9", "7">>],
     \* an element without a link
     [text |-> <<>>, href |-> Undefined, court |-> Undefined, metaText |-> <<>>],
     \* a link to a case without a text: " ", "/au/cases/cth/HCA/1999/27.html"
     [text |-> <<" ">>,
      href |->
    <<"/", "a", "u", "/", "c", "a", "s", "e", "s", "/", "c", "t", "h", "/",
      "H", "C", "A", "/", "1", "9", "9", "9", "/", "2", "7", ".", "h", "t",
      "m", "l">>,
      court |-> Undefined, metaText |-> <<>>],
     \* a case whose reported citation stands in its meta paragraph, with an
     \* absolute href that carries a search decoration: "Mabo v Queensland",
     \* "https://www.austlii.edu.au/au/cases/cth/HCA/1992/23.html?query=mabo",
     \* "(1992) 175 CLR 1", "(1992) 175 CLR 1 3 June 1992"
     [text |->
    <<"M", "a", "b", "o", " ", "v", " ", "Q", "u", "e", "e", "n", "s", "l",
      "a", "n", "d">>,
      href |->
    <<"h", "t", "t", "p", "s", ":", "/", "/", "w", "w", "w", ".", "a", "u",
      "s", "t", "l", "i", "i", ".", "e", "d", "u", ".", "a", "u", "/", "a",
      "u", "/", "c", "a", "s", "e", "s", "/", "c", "t", "h", "/", "H", "C",
      "A", "/", "1", "9", "9", "2", "/", "2", "3", ".", "h", "t", "m", "l",
      "?", "q", "u", "e", "r", "y", "=", "m", "a", "b", "o">>,
      court |->
    <<"(", "1", "9", "9", "2", ")", " ", "1", "7", "5", " ", "C", "L", "R",
      " ", "1">>,
      metaText |->
    <<"(", "1", "9", "9", "2", ")", " ", "1", "7", "5", " ", "C", "L", "R",
      " ", "1", " ", "3", " ", "J", "u", "n", "e", " ", "1", "9", "9", "2">>],
     \* a page of a legislation database whose path has a cases segment:
     \* "Abolition of Slavery Act - Cases",
     \* "/au/legis/nsw/consol_act/aosa1833/cases/"
     [text |->
    <<"A", "b", "o", "l", "i", "t", "i", "o", "n", " ", "o", "f", " ", "S",
      "l", "a", "v", "e", "r", "y", " ", "A", "c", "t", " ", "-", " ", "C",
      "a", "s", "e", "s">>,
      href |->
    <<"/", "a", "u", "/", "l", "e", "g", "i", "s", "/", "n", "s", "w", "/",
      "c", "o", "n", "s", "o", "l", "_", "a", "c", "t", "/", "a", "o", "s",
      "a", "1", "8", "3", "3", "/", "c", "a", "s", "e", "s", "/">>,
      court |-> Undefined, metaText |-> <<>>]}

\* The pages jade.io answers a citation lookup with: the content of the title
\* element and the address after redirects.
JadePages ==
    {\* the generic page
     [title |-> JADE_GENERIC_TITLE, responseUrl |-> Undefined],
     \* the page of the decision, after a redirect to the article:
     \* "R v Tang [2008] HCA 39 - BarNet Jade", "https://jade.io/article/68901"
     [title |->
     <<"R", " ", "v", " ", "T", "a", "n", "g", " ", "[", "2", "0", "0", "8",
       "]", " ", "H", "C", "A", " ", "3", "9", " ", "-", " ", "B", "a", "r",
       "N", "e", "t", " ", "J", "a", "d", "e">>,
      responseUrl |->
     <<"h", "t", "t", "p", "s", ":", "/", "/", "j", "a", "d", "e", ".", "i",
       "o", "/", "a", "r", "t", "i", "c", "l", "e", "/", "6", "8", "9", "0",
       "1">>],
     \* a page whose title names the decision without its citation:
     \* "R v Tang - BarNet Jade"
     [title |->
     <<"R", " ", "v", " ", "T", "a", "n", "g", " ", "-", " ", "B", "a", "r",
       "N", "e", "t", " ", "J", "a", "d", "e">>,
      responseUrl |-> Undefined]}

\* The queries: "R v Tang", a named authority, and "slavery", a topic.
SearchQueries ==
    {<<"R", " ", "v", " ", "T", "a", "n", "g">>,
     <<"s", "l", "a", "v", "e", "r", "y">>}

\* "[2008] HCA 39"
JadeCitations == {<<"[", "2", "0", "0", "8", "]", " ", "H", "C", "A", " ", "3", "9">>}

ScrapeElementValues ==
    {<<li, type, ScrapeElement(li, type, 0)>> : li \in Elements, type \in ResultTypes}

StoredScrapeElement(li, type, ref) ==
    LET WithRef(pushed) == [i \in 1..Len(pushed) |-> [pushed[i] EXCEPT !.ref = ref]]
    IN WithRef((CHOOSE e \in ScrapeElementValues : e[1] = li /\ e[2] = type)[3])

\* The titles and the queries boostTitleMatches is called with on its own.
BoostTitles ==
    {\* "Li v Wales"
    <<"L", "i", " ", "v", " ", "W", "a", "l", "e", "s">>,
     \* "State of New South Wales v New South Wales"
    <<"S", "t", "a", "t", "e", " ", "o", "f", " ", "N", "e", "w", " ", "S",
      "o", "u", "t", "h", " ", "W", "a", "l", "e", "s", " ", "v", " ", "N",
      "e", "w", " ", "S", "o", "u", "t", "h", " ", "W", "a", "l", "e", "s">>,
     \* "Wales v Tang"
    <<"W", "a", "l", "e", "s", " ", "v", " ", "T", "a", "n", "g">>,
     \* "Re Wakim"
    <<"R", "e", " ", "W", "a", "k", "i", "m">>}

BoostQueries ==
    {\* "State of New South Wales v Li": the parties are Wales and Li
    <<"S", "t", "a", "t", "e", " ", "o", "f", " ", "N", "e", "w", " ", "S",
      "o", "u", "t", "h", " ", "W", "a", "l", "e", "s", " ", "v", " ", "L",
      "i">>,
     \* "Wales v Tang"
    <<"W", "a", "l", "e", "s", " ", "v", " ", "T", "a", "n", "g">>,
     \* "New South Wales": no parties
    <<"N", "e", "w", " ", "S", "o", "u", "t", "h", " ", "W", "a", "l", "e",
      "s">>}

ScoreValues ==
    {<<e[1], e[2], Score(e[1], e[2])>> :
        e \in ({Trim(li.text) : li \in Elements} \X SearchQueries)
                  \cup (BoostTitles \X BoostQueries)}

StoredScore(title, q) ==
    (CHOOSE e \in ScoreValues : e[1] = title /\ e[2] = q)[3]

IsCaseNameQueryValues == {<<q, isCaseNameQuery(q)>> : q \in SearchQueries}

StoredIsCaseNameQuery(q) == (CHOOSE e \in IsCaseNameQueryValues : e[1] = q)[2]

\* determineSortMode reads the type and the sortBy of the options
DetermineSortModeValues ==
    {<<q, type, sb, determineSortMode(q, [type |-> type, sortBy |-> sb])>> :
        q \in SearchQueries, type \in ResultTypes, sb \in SortByValues}

StoredDetermineSortMode(q, opts) ==
    (CHOOSE e \in DetermineSortModeValues :
         e[1] = q /\ e[2] = opts.type /\ e[3] = opts.sortBy)[4]

SearchJadeByCitationValues ==
    {<<c, response, searchJadeByCitation(c, response)>> :
        c \in JadeCitations, response \in JadePages}

StoredSearchJadeByCitation(citation, response) ==
    (CHOOSE e \in SearchJadeByCitationValues :
         e[1] = citation /\ e[2] = response)[3]

(***************************************************************************)
(* searchAustLii, given the li elements of the response (page), and        *)
(* boostTitleMatches.                                                      *)
(***************************************************************************)
\* the loop over the elements, had it ended at the first element it pushes
\* nothing for
ScrapeUntilDropped(page, i, type, rs, base) ==
    LET dropped == {k \in i..Len(page) : StoredScrapeElement(page[k], type, 0) = <<>>}
        end == IF dropped = {} THEN Len(page) + 1
               ELSE CHOOSE k \in dropped : \A other \in dropped : k <= other
    IN rs \o [k \in 1..(end - i) |->
                 StoredScrapeElement(page[i + k - 1], type, base + Len(rs) + k)[1]]

RECURSIVE Scrape(_, _, _, _, _)
\* The results array after the elements of the page from the i-th on have
\* been visited, rs being the array before; the k-th object of the array has
\* identity base + k.
Scrape(page, i, type, rs, base) ==
    IF i > Len(page) THEN rs
    ELSE Scrape(page, i + 1, type,
                rs \o StoredScrapeElement(page[i], type, base + Len(rs) + 1), base)

\* boostTitleMatches, had it dropped the results that score nothing
BoostTitleMatchesDropUnmatched(rs, q) ==
    LET score == [i \in 1..Len(rs) |-> StoredScore(rs[i].title, q)]
        Place(i) ==
            1 + Cardinality({j \in 1..Len(rs) :
                                score[j] > score[i] \/ (score[j] = score[i] /\ j < i)})
    IN SelectSeq([k \in 1..Len(rs) |-> rs[CHOOSE i \in 1..Len(rs) : Place(i) = k]],
                 LAMBDA r : StoredScore(r.title, q) > 0)

\* boostTitleMatches, had its sort put the later of two entries of equal score
\* first
BoostTitleMatchesUnstable(rs, q) ==
    LET score == [i \in 1..Len(rs) |-> StoredScore(rs[i].title, q)]
        Place(i) ==
            1 + Cardinality({j \in 1..Len(rs) :
                                score[j] > score[i] \/ (score[j] = score[i] /\ j > i)})
    IN [k \in 1..Len(rs) |-> rs[CHOOSE i \in 1..Len(rs) : Place(i) = k]]

\* scored.sort((a, b) => b.score - a.score) is a stable sort: the entry at
\* index i comes after the entries of higher score and after the earlier
\* entries of equal score.
boostTitleMatches(rs, q) ==
    LET score == [i \in 1..Len(rs) |-> StoredScore(rs[i].title, q)]
        Place(i) ==
            1 + Cardinality({j \in 1..Len(rs) :
                                score[j] > score[i] \/ (score[j] = score[i] /\ j < i)})
    IN [k \in 1..Len(rs) |-> rs[CHOOSE i \in 1..Len(rs) : Place(i) = k]]

\* searchAustLii, had it boosted the results of a case-name query whatever
\* the sort mode
SearchAustLiiBoostAnySortMode(q, opts, page, base) ==
    LET limit == IF opts.limit = NoNumber THEN 10 ELSE opts.limit
        FinalResults(rs) ==
            IF StoredIsCaseNameQuery(q) THEN boostTitleMatches(rs, q) ELSE rs
    IN Slice(FinalResults(Scrape(page, 1, opts.type, <<>>, base)), limit)

searchAustLii(q, opts, page, base) ==
    LET limit == IF opts.limit = NoNumber THEN 10 ELSE opts.limit
        sortMode_ == StoredDetermineSortMode(q, opts)
        FinalResults(rs) ==
            IF sortMode_ = "relevance" /\ StoredIsCaseNameQuery(q)
            THEN boostTitleMatches(rs, q)
            ELSE rs
    IN Slice(FinalResults(Scrape(page, 1, opts.type, <<>>, base)), limit)

(***************************************************************************)
(* The reconciler called on every mixed list: SpecDedup.                   *)
(* results is the list given to deduplicateResults; austliiResults and     *)
(* jadeResults are the two lists given to mergeSearchResults (here the     *)
(* list cut in two at any point, so that every pair of lists occurs).      *)
(***************************************************************************)
InitDedup ==
    \E rs \in ResultArrays(MaxLen) :
        \E k \in 0..Len(rs) :
            /\ results = rs
            /\ austliiResults = SubSeq(rs, 1, k)
            /\ jadeResults = SubSeq(rs, k + 1, Len(rs))
            /\ output = <<>>
            /\ output2 = <<>>
            /\ pc = "start"
            /\ query = <<>>
            /\ options = Undefined
            /\ sortMode = Undefined
            /\ caseNameQuery = Undefined
            /\ includeJade = FALSE
            /\ toResolve = <<>>
            /\ settlements = <<>>
            /\ formatted = <<>>
            /\ html = <<>>
            /\ error = <<>>
            /\ thrown = <<>>
            /\ inputText = <<>>
            /\ reportedCitation = Undefined

\* const output = deduplicateResults(results)
CallDeduplicateResults ==
    /\ pc = "start"
    /\ output' = deduplicateResults(results)
    /\ pc' = "deduplicated"
    /\ UNCHANGED <<citationVars, results, austliiResults, jadeResults, output2, sortVars, searchVars>>

\* A plausible slip: the Map seen is created once, when the module is loaded,
\* and the second call finds in it what the first call left there.
CallDeduplicateAgainSharedSeen ==
    /\ pc = "deduplicated"
    /\ output2' = DedupLoop(output, 1,
                            [seen |-> DedupLoop(results, 1,
                                                [seen |-> EmptyMap, output |-> <<>>]).seen,
                             output |-> <<>>]).output
    /\ pc' = "deduplicated twice"
    /\ UNCHANGED <<citationVars, results, austliiResults, jadeResults, output, sortVars, searchVars>>

\* deduplicateResults(output): the returned list is deduplicated once more
CallDeduplicateAgain ==
    /\ pc = "deduplicated"
    /\ output2' = deduplicateResults(output)
    /\ pc' = "deduplicated twice"
    /\ UNCHANGED <<citationVars, results, austliiResults, jadeResults, output, sortVars, searchVars>>

\* const output = mergeSearchResults(austliiResults, jadeResults)
CallMergeSearchResults ==
    /\ pc = "start"
    /\ output' = mergeSearchResults(austliiResults, jadeResults)
    /\ pc' = "merged"
    /\ UNCHANGED <<citationVars, results, austliiResults, jadeResults, output2, sortVars, searchVars>>

NextDedup ==
    \/ CallDeduplicateResults
    \/ CallDeduplicateAgain
    \/ CallMergeSearchResults

SpecDedup == InitDedup /\ [][NextDedup]_vars

(***************************************************************************)
(* Claims about the reconciler, checked under SpecDedup.                   *)
(***************************************************************************)
\* The list a finished call was given: deduplicateResults(results), or
\* mergeSearchResults(austliiResults, jadeResults).
Returned == pc \in {"deduplicated", "merged"}

\* The indices of arr whose entry carries the citation k.
WithCitation(arr, k) == {i \in 1..Len(arr) : arr[i].neutralCitation = k}

\* The truthy citations that occur in arr.
CitationsOf(arr) ==
    {arr[i].neutralCitation : i \in {j \in 1..Len(arr) : Truthy(arr[j].neutralCitation)}}

\* C1: the list returned by deduplicateResults, and so by mergeSearchResults,
\* holds no two entries with the same non-empty neutralCitation.
C1_NoSharedCitation ==
    Returned =>
        \A i, j \in 1..Len(output) :
            (i # j /\ Truthy(output[i].neutralCitation))
                => output[i].neutralCitation # output[j].neutralCitation

\* C1 witness: a call returned from a list in which a citation was repeated.
C1_Witness ==
    /\ pc = "merged"
    /\ \E k \in CitationsOf(jadeResults) :
           /\ WithCitation(austliiResults, k) # {}
           /\ Cardinality(WithCitation(output, k)) = 1

\* The entry the preference rule keeps for citation k of the list arr: the
\* first jade.io entry with that citation, or else the first entry with it.
Preferred(arr, k) ==
    LET jade == {i \in WithCitation(arr, k) : arr[i].source = "jade"} IN
    IF jade # {} THEN arr[Min(jade)] ELSE arr[Min(WithCitation(arr, k))]

\* C2: for every citation K of the input, the one output entry with key K is
\* the first input entry with key K from jade.io if there is one, and else the
\* first input entry with key K.
C2_PreferredEntryKept ==
    pc = "deduplicated" =>
        \A k \in CitationsOf(results) :
            /\ Cardinality(WithCitation(output, k)) = 1
            /\ \A o \in WithCitation(output, k) : output[o] = Preferred(results, k)

\* C2 witness: three entries share a citation, the first from AustLII and the
\* last two from jade.io; the first jade.io entry is the one returned.
C2_Witness ==
    /\ pc = "deduplicated"
    /\ Len(results) = 3
    /\ Truthy(results[1].neutralCitation)
    /\ \A i \in 1..3 : results[i].neutralCitation = results[1].neutralCitation
    /\ results[1].source = "austlii"
    /\ results[2].source = "jade"
    /\ results[3].source = "jade"
    /\ output = <<results[2]>>

\* The entries of arr that have no neutralCitation, in order.
WithoutCitation(arr) == SelectSeq(arr, LAMBDA r : ~Truthy(r.neutralCitation))

\* C3: deduplicateResults removes no entry that has no neutralCitation: each
\* is in the output once per occurrence, in the same relative order, also
\* when its title is that of another entry.
C3_UncitedKept ==
    pc = "deduplicated" => WithoutCitation(output) = WithoutCitation(results)

\* C3 witness: two entries without a citation and with the same title are
\* both returned.
C3_Witness ==
    /\ pc = "deduplicated"
    /\ \E i, j \in 1..Len(results) :
           /\ i < j
           /\ results[i].neutralCitation = Undefined
           /\ results[j].neutralCitation = Undefined
           /\ results[i].title = results[j].title
           /\ results[i].source = results[j].source
    /\ Len(output) = Len(results)

\* What orders the output: an entry's citation, or the entry itself when it
\* has none.
OrderKey(r) == IF Truthy(r.neutralCitation) THEN <<"citation", r.neutralCitation>>
               ELSE <<"object", r.ref>>

\* The indices of arr at which an order key occurs for the first time.
FirstOccurrences(arr) ==
    {i \in 1..Len(arr) : \A j \in 1..(i - 1) : OrderKey(arr[j]) # OrderKey(arr[i])}

\* C4: the output is ordered by first occurrence in the input: the survivor of
\* each citation sits where the citation first occurred, a replacing jade.io
\* entry included.
C4_FirstSeenOrder ==
    pc = "deduplicated" =>
        LET first == FirstOccurrences(results) IN
        /\ Len(output) = Cardinality(first)
        /\ \A p \in 1..Len(output) :
               \E i \in first :
                   /\ Cardinality({j \in first : j <= i}) = p
                   /\ OrderKey(output[p]) = OrderKey(results[i])

\* C4 witness: a jade.io entry that came last replaced the AustLII entry at
\* the front, ahead of an entry that came between them.
C4_Witness ==
    /\ pc = "deduplicated"
    /\ Len(results) = 3
    /\ Len(output) = 2
    /\ results[1].source = "austlii"
    /\ results[3].source = "jade"
    /\ output[1] = results[3]
    /\ output[2] = results[2]

\* C5: mergeSearchResults(A, J) is deduplicateResults of J followed by A, and
\* mergeSearchResults(A, []) is deduplicateResults(A).
C5_MergeIsDedupOfJadeThenAustLii ==
    pc = "merged" =>
        /\ output = deduplicateResults(jadeResults \o austliiResults)
        /\ (jadeResults = <<>> => output = deduplicateResults(austliiResults))

\* C5 witness: a merge of two non-empty lists that share a citation, where
\* the order of concatenation shows in the result.
C5_Witness ==
    /\ pc = "merged"
    /\ austliiResults # <<>>
    /\ jadeResults # <<>>
    /\ output # deduplicateResults(austliiResults \o jadeResults)

\* C6: deduplicateResults is idempotent.
C6_Idempotent ==
    pc = "deduplicated twice" => output2 = output

\* C6 witness: the second call was given a list the first call had shortened
\* by replacing an entry in place.
C6_Witness ==
    /\ pc = "deduplicated twice"
    /\ Len(output) < Len(results)
    /\ \E i \in 1..Len(output) : \E j \in 1..Len(results) :
           i < j /\ output[i] = results[j]
    /\ output2 = output

(***************************************************************************)
(* The classifier and the sort-mode selector called on every query:        *)
(* SpecSort.  A query is a run of fragments of one family: party queries   *)
(* (words, blanks, "v", "V."), "re" queries, citation queries and quoted   *)
(* queries, with the near misses of each.                                  *)
(***************************************************************************)
PartyFragments == {<<"b">>, <<" ">>, <<"v">>, <<"V", ".">>}

ReFragments == {<<"R", "e">>, <<"i", "n">>, <<" ">>, <<"b">>}

QuoteFragments == {<<"\"">>, <<"b">>, <<" ">>}

CitationFragments ==
    {<<"[", "1", "9", "9", "2", "]">>, <<"[", "1", "9", "9", "]">>,
     <<"H", "C", "A">>, <<"h", "c", "a">>, <<"2", "3">>, <<" ">>}

RECURSIVE Concat(_, _)
\* The fragments fs[i..Len(fs)] joined into one string.
Concat(fs, i) == IF i > Len(fs) THEN <<>> ELSE fs[i] \o Concat(fs, i + 1)

\* The strings made of at most n fragments of F.
StringsOf(F, n) == {Concat(fs, 1) : fs \in UNION {[1..k -> F] : k \in 0..n}}

Queries ==
    StringsOf(PartyFragments, MaxWords) \cup StringsOf(ReFragments, MaxWords)
        \cup StringsOf(QuoteFragments, MaxWords)
        \cup StringsOf(CitationFragments, MaxCitationParts)

InitSort ==
    /\ pc = "start"
    /\ query \in Queries \ {<<>>}
    /\ options = Undefined
    /\ sortMode = Undefined
    /\ caseNameQuery = Undefined
    /\ results = <<>>
    /\ austliiResults = <<>>
    /\ jadeResults = <<>>
    /\ output = <<>>
    /\ output2 = <<>>
    /\ includeJade = FALSE
    /\ toResolve = <<>>
    /\ settlements = <<>>
    /\ formatted = <<>>
    /\ html = <<>>
    /\ error = <<>>
    /\ thrown = <<>>
    /\ inputText = <<>>
    /\ reportedCitation = Undefined

\* isCaseNameQuery(query)
CallIsCaseNameQuery ==
    /\ pc = "start"
    /\ caseNameQuery' = isCaseNameQuery(query)
    /\ pc' = "classified"
    /\ UNCHANGED <<citationVars, query, options, sortMode, dedupVars, searchVars>>

\* determineSortMode(query, options), for any options
CallDetermineSortMode ==
    /\ pc = "start"
    /\ \E t \in ResultTypes, sb \in SortByValues :
           /\ options' = [type |-> t, sortBy |-> sb, limit |-> NoNumber]
           /\ sortMode' = determineSortMode(query, options')
    /\ pc' = "sort mode determined"
    /\ UNCHANGED <<citationVars, query, caseNameQuery, dedupVars, searchVars>>

NextSort ==
    \/ CallIsCaseNameQuery
    \/ CallDetermineSortMode

SpecSort == InitSort /\ [][NextSort]_vars

(***************************************************************************)
(* Claims about the sort-mode selector and the classifier, checked under   *)
(* SpecSort.                                                               *)
(***************************************************************************)
\* C8: determineSortMode returns relevance whenever sortBy is relevance and
\* date whenever sortBy is date, for every query and both result types.
C8_ExplicitSortByWins ==
    pc = "sort mode determined" =>
        /\ options.sortBy = "relevance" => sortMode = "relevance"
        /\ options.sortBy = "date" => sortMode = "date"

\* C8 witness: date was asked for a case search whose query names a case, and
\* relevance for a topic query.
C8_Witness ==
    /\ pc = "sort mode determined"
    /\ options.type = "case"
    /\ \/ options.sortBy = "date" /\ isCaseNameQuery(query) /\ sortMode = "date"
       \/ options.sortBy = "relevance" /\ ~isCaseNameQuery(query)
              /\ sortMode = "relevance"

\* C9: with sortBy auto or unset the answer is relevance exactly when type is
\* case and isCaseNameQuery(query) holds, and date otherwise (so it is the
\* same for auto and for unset, being decided by type and query alone); for
\* legislation it is date for every query.
C9_AutoSortMode ==
    (pc = "sort mode determined" /\ options.sortBy \in {"auto", NotGiven}) =>
        /\ sortMode \in {"relevance", "date"}
        /\ options.type = "legislation" => sortMode = "date"
        /\ options.type = "case" => (sortMode = "relevance" <=> isCaseNameQuery(query))

\* C9 witness: a legislation search with sortBy unset whose query has the
\* party-vs-party shape was given date.
C9_Witness ==
    /\ pc = "sort mode determined"
    /\ options.sortBy = NotGiven
    /\ options.type = "legislation"
    /\ PartyPattern(query)
    /\ sortMode = "date"

\* The characters q[i..j] are all of class C.
AllOf(q, i, j, C(_)) == \A x \in i..j : C(q[x])

\* (a) a word, whitespace, "v" with an optional period, whitespace and a word
HasPartyVsParty(q) ==
    \E v \in 1..Len(q) :
        /\ q[v] \in {"v", "V"}
        /\ \E w1 \in 1..(v - 2) :
               IsWordChar(q[w1]) /\ AllOf(q, w1 + 1, v - 1, IsSpace)
        /\ \E w2 \in (v + 2)..Len(q) :
               /\ IsWordChar(q[w2])
               /\ \/ AllOf(q, v + 1, w2 - 1, IsSpace)
                  \/ v + 2 < w2 /\ q[v + 1] = "." /\ AllOf(q, v + 2, w2 - 1, IsSpace)

\* q holds "re" (in any case) at r and r + 1
HasReAt(q, r) == r + 1 <= Len(q) /\ q[r] \in {"r", "R"} /\ q[r + 1] \in {"e", "E"}

\* q[i] starts a word
StartsWord(q, i) == i = 1 \/ ~IsWordChar(q[i - 1])

\* (b) "re" or "in re" at a word boundary, whitespace and a word
HasReWord(q) ==
    \E r \in 1..Len(q) :
        /\ HasReAt(q, r)
        /\ \E w \in (r + 3)..Len(q) :
               IsWordChar(q[w]) /\ AllOf(q, r + 2, w - 1, IsSpace)
        /\ \/ StartsWord(q, r)
           \/ \E i \in 1..(r - 3) :
                  /\ q[i] \in {"i", "I"}
                  /\ q[i + 1] \in {"n", "N"}
                  /\ StartsWord(q, i)
                  /\ AllOf(q, i + 2, r - 1, IsSpace)

\* (c) a bracketed 4-digit year, a court code of letters of class Code and a
\* number, with or without whitespace between them
HasCitation(q, Code(_)) ==
    \E o \in 1..(Len(q) - 5) :
        /\ q[o] = "["
        /\ AllOf(q, o + 1, o + 4, IsDigit)
        /\ q[o + 5] = "]"
        /\ \E c1 \in (o + 6)..Len(q) :
               /\ AllOf(q, o + 6, c1 - 1, IsSpace)
               /\ \E c2 \in c1..Len(q) :
                      /\ AllOf(q, c1, c2, Code)
                      /\ \E n \in (c2 + 1)..Len(q) :
                             AllOf(q, c2 + 1, n - 1, IsSpace) /\ IsDigit(q[n])

\* (d) a double-quote character
HasQuote(q) == \E i \in 1..Len(q) : q[i] = "\""

Texts ==
    StringsOf({<<"(", "1", "9", "9", "2", ")", " ", "1", "7", "5", " ", "C", "L", "R", " ", "1">>,
               <<"[", "2", "0", "2", "4", "]", " ", "1", " ", "N", "Z", "L", "R", " ", "4", "5", "6">>,
               <<"[", "2", "0", "2", "4", "]", " ", "H", "C", "A", " ", "2", "6">>,
               <<" ">>, <<"M", "a", "b", "o", " ">>, <<"1">>},
              MaxCitations)
        \cup StringsOf({<<"(", "1", "9", "9", "2", ")", " ">>,
                        <<"[", "2", "0", "2", "4", "]", " ">>, <<"1", "7", "5", " ">>,
                        <<"C", "L", "R", " ">>, <<"C", " ">>,
                        <<"A", "B", "C", "D", "E", "F", "G", " ">>, <<"1">>, <<" ">>},
                       MaxCitationParts)

InitCitation ==
    /\ pc = "start"
    /\ inputText \in Texts
    /\ reportedCitation = Undefined
    /\ results = <<>>
    /\ austliiResults = <<>>
    /\ jadeResults = <<>>
    /\ output = <<>>
    /\ output2 = <<>>
    /\ query = <<>>
    /\ options = Undefined
    /\ sortMode = Undefined
    /\ caseNameQuery = Undefined
    /\ includeJade = FALSE
    /\ toResolve = <<>>
    /\ settlements = <<>>
    /\ formatted = <<>>
    /\ html = <<>>
    /\ error = <<>>
    /\ thrown = <<>>

\* extractReportedCitation(inputText)
CallExtractReportedCitation ==
    /\ pc = "start"
    /\ reportedCitation' = extractReportedCitation(inputText)
    /\ pc' = "extracted"
    /\ UNCHANGED <<inputText, dedupVars, sortVars, searchVars>>

NextCitation == CallExtractReportedCitation

SpecCitation == InitCitation /\ [][NextCitation]_vars

(***************************************************************************)
(* Claims about extractReportedCitation, checked under SpecCitation.       *)
(***************************************************************************)
\* The characters s[p + 1 .. e] have the reported-citation shape: a 4-digit
\* year in round or square brackets, whitespace, a volume number, whitespace,
\* a reporter code of 2 to 6 upper-case letters, whitespace, a page number.
HasReportedShape(s, p, e) ==
    /\ p + 6 < e
    /\ <<s[p + 1], s[p + 6]>> \in {<<"(", ")">>, <<"[", "]">>}
    /\ AllOf(s, p + 2, p + 5, IsDigit)
    /\ \E v1 \in (p + 8)..e :
           /\ AllOf(s, p + 7, v1 - 1, IsSpace)
           /\ \E v2 \in v1..e :
                  /\ AllOf(s, v1, v2, IsDigit)
                  /\ \E c1 \in (v2 + 2)..e :
                         /\ AllOf(s, v2 + 1, c1 - 1, IsSpace)
                         /\ \E c2 \in (c1 + 1)..e :
                                /\ c2 - c1 + 1 <= 6
                                /\ AllOf(s, c1, c2, IsUpperLetter)
                                /\ \E n \in (c2 + 2)..e :
                                       /\ AllOf(s, c2 + 1, n - 1, IsSpace)
                                       /\ AllOf(s, n, e, IsDigit)

\* The substrings of s of that shape that no longer substring of that shape
\* starting at the same place contains, as pairs <<p, e>>.
ReportedCitationsIn(s) ==
    {m \in (0..Len(s)) \X (1..Len(s)) :
        /\ HasReportedShape(s, m[1], m[2])
        /\ ~(m[2] < Len(s) /\ HasReportedShape(s, m[1], m[2] + 1))}

\* C15: extractReportedCitation returns the first (leftmost) substring of the
\* text that has the reported-citation shape, whichever of the two bracket
\* styles it uses.
C15_LeftmostReportedCitation ==
    LET IsFirst(found) ==
            found # {} =>
                \E m \in found :
                    /\ \A n \in found : m[1] <= n[1]
                    /\ reportedCitation = SubSeq(inputText, m[1] + 1, m[2])
    IN pc = "extracted" => IsFirst(ReportedCitationsIn(inputText))

\* C16: extractReportedCitation returns undefined for a text that holds no
\* substring of the reported-citation shape: the empty string, a text without
\* a citation, a text whose citations are all neutral ones.
C16_UndefinedWithoutReportedCitation ==
    LET IsUndefined(found) == found = {} => reportedCitation = Undefined
    IN pc = "extracted" => IsUndefined(ReportedCitationsIn(inputText))

\* undefined was returned for a text that holds a neutral citation and no
\* reported one
C16_Witness ==
    /\ pc = "extracted"
    /\ CitationPattern(inputText)
    /\ ReportedCitationsIn(inputText) = {}
    /\ reportedCitation = Undefined

(***************************************************************************)
(* boostTitleMatches called on every list of results: SpecBoost.           *)
(* The results are new objects (the i-th of identity i) whose titles are   *)
(* drawn from BoostTitles, and the query is one of BoostQueries.           *)
(***************************************************************************)
InitBoost ==
    /\ pc = "start"
    /\ results \in
           {[i \in 1..Len(ts) |->
                [ref |-> i, title |-> ts[i], source |-> "austlii", type |-> "case"]] :
               ts \in UNION {[1..k -> BoostTitles] : k \in 0..MaxLen}}
    /\ query \in BoostQueries
    /\ output = <<>>
    /\ austliiResults = <<>>
    /\ jadeResults = <<>>
    /\ output2 = <<>>
    /\ options = Undefined
    /\ sortMode = Undefined
    /\ caseNameQuery = Undefined
    /\ includeJade = FALSE
    /\ toResolve = <<>>
    /\ settlements = <<>>
    /\ formatted = <<>>
    /\ html = <<>>
    /\ error = <<>>
    /\ thrown = <<>>
    /\ inputText = <<>>
    /\ reportedCitation = Undefined

\* A plausible slip: results.sort(...) sorts the array it was given and
\* returns it.
CallBoostTitleMatchesInPlace ==
    /\ pc = "start"
    /\ results' = boostTitleMatches(results, query)
    /\ output' = results'
    /\ pc' = "boosted"
    /\ UNCHANGED <<citationVars, austliiResults, jadeResults, output2, sortVars,
                   searchVars>>

\* const boosted = boostTitleMatches(results, query)
CallBoostTitleMatches ==
    /\ pc = "start"
    /\ output' = boostTitleMatches(results, query)
    /\ pc' = "boosted"
    /\ UNCHANGED <<citationVars, results, austliiResults, jadeResults, output2, sortVars,
                   searchVars>>

NextBoost == CallBoostTitleMatches

SpecBoost == InitBoost /\ [][NextBoost]_vars

(***************************************************************************)
(* Claims about boostTitleMatches, checked under SpecBoost.                *)
(***************************************************************************)
\* how many times the object r occurs in arr
Occurrences(arr, r) == Cardinality({i \in 1..Len(arr) : arr[i] = r})

\* C11: boostTitleMatches returns a permutation of its input: the same length
\* and every entry as many times as in the input (so the empty list for the
\* empty list).
C11_Permutation ==
    pc = "boosted" =>
        /\ Len(output) = Len(results)
        /\ \A i \in 1..Len(results) :
               Occurrences(output, results[i]) = Occurrences(results, results[i])
        /\ \A i \in 1..Len(output) :
               Occurrences(results, output[i]) = Occurrences(output, output[i])

\* boostTitleMatches has reordered a list of three results
C11_Witness ==
    /\ pc = "boosted"
    /\ Len(results) = 3
    /\ output # results

\* C12: in the list boostTitleMatches returns the score never increases from
\* front to back, and two entries of equal score are in the order they had in
\* the input (the i-th object of the input has identity i).
C12_SortedStable ==
    LET Ordered(score) ==
            \A i, j \in 1..Len(output) :
                i < j => /\ score[i] >= score[j]
                         /\ score[i] = score[j] => output[i].ref < output[j].ref
    IN pc = "boosted" => Ordered([i \in 1..Len(output) |-> Score(output[i].title, query)])

\* the returned list has two entries of equal score, after an entry that came
\* after them in the input
C12_Witness ==
    LET Tied(score) ==
            \E i, j, k \in 1..Len(output) :
                /\ i < j /\ j < k
                /\ score[j] = score[k]
                /\ score[i] > score[j]
                /\ output[i].ref > output[k].ref
    IN pc = "boosted" /\ Tied([i \in 1..Len(output) |-> Score(output[i].title, query)])

\* How many of the two parties of the match m of the party pattern the title
\* contains (as boostTitleMatches looks for them: in the normalized title, in
\* lower case); none when the pattern does not match.
PartiesContained(title, m) ==
    LET Contained(normalizedTitle) ==
            Cardinality({k \in 1..2 : Includes(normalizedTitle, ToLowerCase(m[k]))})
    IN IF m = <<>> THEN 0 ELSE Contained(Normalized(title))

\* The score of a title without the bonus for the parties.
OtherScore(title, q) ==
    LET Sum(normalizedTitle, normalizedQuery) ==
            WordScore(normalizedTitle, normalizedQuery)
                + SubstringBonus(normalizedTitle, normalizedQuery)
                + StartBonus(normalizedTitle, normalizedQuery)
    IN Sum(Normalized(title), Normalized(q))

MaxScraped == 2

\* largest limit a request asks for
MaxLimit == 2

\* the responses of AustLII: up to MaxScraped li elements
Pages == UNION {[1..k -> Elements] : k \in 0..MaxScraped}

Limits == {NoNumber} \cup (1..MaxLimit)

InitSearch ==
    /\ pc = "idle"
    /\ query = <<>>
    /\ options = Undefined
    /\ includeJade = FALSE
    /\ austliiResults = <<>>
    /\ jadeResults = <<>>
    /\ toResolve = <<>>
    /\ settlements = <<>>
    /\ formatted = <<>>
    /\ html = <<>>
    /\ error = <<>>
    /\ thrown = <<>>
    /\ inputText = <<>>
    /\ reportedCitation = Undefined
    /\ results = <<>>
    /\ output = <<>>
    /\ output2 = <<>>
    /\ sortMode = Undefined
    /\ caseNameQuery = Undefined

\* A tool is called: its handler parses the input, builds the options and
\* calls searchAustLii, which sends its request.
CallTool(type) ==
    /\ pc = "idle"
    /\ \E q \in SearchQueries, sb \in SortByValues, lim \in Limits, ij \in BOOLEAN :
           /\ query' = q
           /\ options' = [type |-> type, sortBy |-> sb, limit |-> lim]
           /\ includeJade' = ij
    /\ pc' = "searchAustLii"
    /\ UNCHANGED <<citationVars, austliiResults, jadeResults, toResolve, settlements, formatted,
                   html, error, thrown, results, output, output2, sortMode, caseNameQuery>>

CallSearchCases == CallTool("case")

CallSearchLegislation == CallTool("legislation")

\* searchJade when it returns jade: the handler merges and hands the merged
\* list to formatSearchResults.
MergeAndFormat(jade) ==
    /\ jadeResults' = jade
    /\ formatted' = mergeSearchResults(austliiResults, jade)
    /\ pc' = "formatted"

\* AustLII answers the handler's search.  Without includeJade the handler
\* hands the results to formatSearchResults; with it, it calls searchJade,
\* which calls searchAustLii once more.
AustLiiResponds ==
    /\ pc = "searchAustLii"
    /\ \E page \in Pages :
           \E rs \in {searchAustLii(query, options, page, 0)} :
               /\ html' = page
               /\ austliiResults' = rs
               /\ IF includeJade
                  THEN pc' = "searchJade" /\ UNCHANGED formatted
                  ELSE pc' = "formatted" /\ formatted' = rs
    /\ UNCHANGED <<citationVars, query, options, includeJade, error, thrown, jadeResults, toResolve, settlements,
                   results, output, output2, sortMode, caseNameQuery>>

\* new AustLiiError(message, statusCode, cause)
AustLiiError(message, statusCode, cause) ==
    [name |-> "AustLiiError", message |-> message, statusCode |-> statusCode,
     cause |-> cause]

\* What the try block of searchAustLii can throw: the rejections of axios.get
\* (no response, or a response with an error status) and the TypeError of
\* new URL; response is the empty sequence when the error has none.
Errors ==
    {[ref |-> 1, name |-> "AxiosError", isAxiosError |-> TRUE, response |-> <<>>,
      message |-> <<"N", "e", "t", "w", "o", "r", "k", " ", "E", "r", "r", "o", "r">>],
     [ref |-> 2, name |-> "AxiosError", isAxiosError |-> TRUE, response |-> <<[status |-> 503]>>,
      message |-> <<"s", "t", "a", "t", "u", "s", " ", "c", "o", "d", "e", " ", "5", "0", "3">>],
     [ref |-> 3, name |-> "TypeError", isAxiosError |-> FALSE, response |-> <<>>,
      message |-> <<"I", "n", "v", "a", "l", "i", "d", " ", "U", "R", "L">>]}

\* the catch block of searchAustLii, had it rethrown whatever it caught
AustLiiFailsRethrowsAll ==
    /\ pc = "searchAustLii"
    /\ \E e \in Errors :
           /\ error' = <<e>>
           /\ thrown' = <<e>>
    /\ pc' = "rejected"
    /\ UNCHANGED <<citationVars, dedupVars, sortVars, includeJade, toResolve, settlements,
                   formatted, html>>

\* The handler's search fails: the catch block of searchAustLii wraps an axios
\* error in an AustLiiError and rethrows any other; the handler has no catch
\* and rejects with the same.
AustLiiFails ==
    /\ pc = "searchAustLii"
    /\ \E e \in Errors :
           /\ error' = <<e>>
           /\ thrown' =
                  IF e.isAxiosError
                  THEN <<AustLiiError(<<"A", "u", "s", "t", "L", "I", "I", " ", "s", "e", "a", "r", "c", "h", " ", "f", "a", "i", "l", "e", "d", ":", " ">> \o e.message,
                                      IF e.response # <<>> THEN e.response[1].status
                                      ELSE NoNumber,
                                      e)>>
                  ELSE <<e>>
    /\ pc' = "rejected"
    /\ UNCHANGED <<citationVars, dedupVars, sortVars, includeJade, toResolve, settlements,
                   formatted, html>>

\* AustLII answers the search of searchJade: with no result, or none with a
\* citation, searchJade returns []; else it starts a lookup for each of the
\* first MAX_JADE_RESOLUTIONS results with a citation.
JadeAustLiiResponds ==
    /\ pc = "searchJade"
    /\ \E page \in Pages :
           \E rs \in {searchAustLii(query, options, page, MaxScraped)} :
               \E withCitations \in {SelectSeq(rs, LAMBDA r : Truthy(r.neutralCitation))} :
                   IF Len(rs) = 0 \/ Len(withCitations) = 0
                   THEN MergeAndFormat(<<>>) /\ UNCHANGED <<toResolve, settlements>>
                   ELSE /\ toResolve' = Slice(withCitations, MAX_JADE_RESOLUTIONS)
                        /\ settlements' =
                               [i \in 1..Len(toResolve') |-> [status |-> "pending"]]
                        /\ pc' = "resolving"
                        /\ UNCHANGED <<jadeResults, formatted>>
    /\ UNCHANGED <<citationVars, query, options, includeJade, html, error, thrown, austliiResults,
                   results, output, output2, sortMode, caseNameQuery>>

\* The search of searchJade fails: searchJade catches the error and returns
\* [].
JadeAustLiiFails ==
    /\ pc = "searchJade"
    /\ MergeAndFormat(<<>>)
    /\ UNCHANGED <<citationVars, query, options, includeJade, html, error, thrown, austliiResults, toResolve, settlements,
                   results, output, output2, sortMode, caseNameQuery>>

\* The i-th lookup settles with value: <<>> for undefined, else the one
\* SearchResult.
Settle(i, value) ==
    /\ pc = "resolving"
    /\ settlements[i].status = "pending"
    /\ settlements' = [settlements EXCEPT ![i] = [status |-> "fulfilled", value |-> value]]
    /\ UNCHANGED <<citationVars, pc, dedupVars, sortVars, includeJade, html, error, thrown, toResolve, formatted>>

\* jade.io answers the i-th lookup.
JadeLookupResponds ==
    \E i \in 1..Len(settlements), response \in JadePages :
        \E article \in {StoredSearchJadeByCitation(toResolve[i].neutralCitation, response)} :
            Settle(i, IF article # <<>>
                      THEN <<articleToSearchResult(article[1], toResolve[i].type,
                                                   2 * MaxScraped + i)>>
                      ELSE <<>>)

\* The request of the i-th lookup fails: searchJadeByCitation catches the
\* error and returns undefined.
JadeLookupFails == \E i \in 1..Len(settlements) : Settle(i, <<>>)

\* the loop over the settlements, had one lookup without a result emptied the
\* whole list
CollectAllOrNothing(ss, i) ==
    IF \E k \in i..Len(ss) : ss[k].status # "fulfilled" \/ ss[k].value = <<>>
    THEN <<>>
    ELSE [k \in 1..(Len(ss) - i + 1) |-> ss[k + i - 1].value[1]]

RECURSIVE Collect(_, _)
\* The loop over the settlements from the i-th on: what it pushes.
Collect(ss, i) ==
    IF i > Len(ss) THEN <<>>
    ELSE (IF ss[i].status = "fulfilled" /\ ss[i].value # <<>> THEN ss[i].value ELSE <<>>)
             \o Collect(ss, i + 1)

\* Every lookup has settled: Promise.allSettled resolves, searchJade collects
\* the results and returns them.
JadeLookupsSettled ==
    /\ pc = "resolving"
    /\ \A i \in 1..Len(settlements) : settlements[i].status # "pending"
    /\ MergeAndFormat(Collect(settlements, 1))
    /\ UNCHANGED <<citationVars, query, options, includeJade, html, error, thrown, austliiResults, toResolve, settlements,
                   results, output, output2, sortMode, caseNameQuery>>

NextSearch ==
    \/ CallSearchCases
    \/ CallSearchLegislation
    \/ AustLiiResponds
    \/ AustLiiFails
    \/ JadeAustLiiResponds
    \/ JadeAustLiiFails
    \/ JadeLookupResponds
    \/ JadeLookupFails
    \/ JadeLookupsSettled

SpecSearch == InitSearch /\ [][NextSearch]_vars

\* The search tools up to the return of the handler's searchAustLii call:
\* SpecAustLii.
NextAustLii ==
    \/ CallSearchCases
    \/ CallSearchLegislation
    \/ AustLiiResponds
    \/ AustLiiFails

SpecAustLii == InitSearch /\ [][NextAustLii]_vars

(***************************************************************************)
(* The search_jade tool: SpecJade.  Its handler calls searchJade and hands *)
(* what it returns to formatSearchResults.  AustLII answers the search of  *)
(* searchJade with up to MaxCandidates li elements of a decision whose     *)
(* title has a neutral citation, after at most one without, or with a      *)
(* failure; jade.io answers each lookup as in SpecSearch.                  *)
(***************************************************************************)
CandidatePages ==
    LET Cited == CHOOSE li \in Elements :
                     \E c \in JadeCitations : Includes(li.text, c)
        Uncited == CHOOSE li \in Elements :
                       Trim(li.text) = <<"R", "e", " ", "W", "a", "k", "i", "m">>
    IN {lead \o [i \in 1..k |-> Cited] :
            lead \in {<<>>, <<Uncited>>}, k \in 0..MaxCandidates}

\* The tool is called: its handler parses the input, builds the options and
\* calls searchJade, which calls searchAustLii, which sends its request.
CallSearchJade ==
    /\ pc = "idle"
    /\ \E q \in SearchQueries, type \in ResultTypes, sb \in SortByValues, lim \in Limits :
           /\ query' = q
           /\ options' = [type |-> type, sortBy |-> sb, limit |-> lim]
    /\ pc' = "search_jade"
    /\ UNCHANGED <<citationVars, dedupVars, sortMode, caseNameQuery, searchVars>>

\* AustLII answers: with no result, or none with a citation, searchJade
\* returns []; else it starts a lookup for each of the first
\* MAX_JADE_RESOLUTIONS results with a citation.
SearchJadeAustLiiResponds ==
    /\ pc = "search_jade"
    /\ \E page \in CandidatePages :
           \E rs \in {searchAustLii(query, options, page,
                                    2 * MaxScraped + MAX_JADE_RESOLUTIONS)} :
               \E withCitations \in {SelectSeq(rs, LAMBDA r : Truthy(r.neutralCitation))} :
                   /\ austliiResults' = rs
                   /\ IF Len(rs) = 0 \/ Len(withCitations) = 0
                      THEN /\ formatted' = <<>>
                           /\ pc' = "formatted"
                           /\ UNCHANGED <<toResolve, settlements>>
                      ELSE /\ toResolve' = Slice(withCitations, MAX_JADE_RESOLUTIONS)
                           /\ settlements' =
                                  [i \in 1..Len(toResolve') |-> [status |-> "pending"]]
                           /\ pc' = "resolving"
                           /\ UNCHANGED formatted
    /\ UNCHANGED <<citationVars, sortVars, includeJade, html, error, thrown, jadeResults,
                   results, output, output2>>

\* The search fails: searchJade catches the error and returns [].
SearchJadeAustLiiFails ==
    /\ pc = "search_jade"
    /\ formatted' = <<>>
    /\ pc' = "formatted"
    /\ UNCHANGED <<citationVars, dedupVars, sortVars, includeJade, html, error, thrown, toResolve, settlements>>

\* Every lookup has settled: Promise.allSettled resolves, searchJade collects
\* the results and returns them to the handler.
SearchJadeReturns ==
    /\ pc = "resolving"
    /\ \A i \in 1..Len(settlements) : settlements[i].status # "pending"
    /\ formatted' = Collect(settlements, 1)
    /\ pc' = "formatted"
    /\ UNCHANGED <<citationVars, dedupVars, sortVars, includeJade, html, error, thrown, toResolve, settlements>>

NextJade ==
    \/ CallSearchJade
    \/ SearchJadeAustLiiResponds
    \/ SearchJadeAustLiiFails
    \/ JadeLookupResponds
    \/ JadeLookupFails
    \/ SearchJadeReturns

SpecJade == InitSearch /\ [][NextJade]_vars

(***************************************************************************)
(* Claims about the search tools, checked under SpecSearch, and about the  *)
(* results of searchAustLii, checked under SpecAustLii.                    *)
(***************************************************************************)
\* limit, as searchAustLii reads it from the options of the request
LimitOf(opts) == IF opts.limit = NoNumber THEN 10 ELSE opts.limit

\* C7: the result list that a search tool (search_cases, search_legislation)
\* hands to the output formatter never has more than limit entries (10 when
\* limit is unset).
C7_AtMostLimitFormatted ==
    pc = "formatted" => Len(formatted) <= LimitOf(options)

\* The results searchAustLii returned to the handler are in the order they
\* were scraped: the k-th result pushed is the object of identity k.
InScrapedOrder(rs) == \A i \in 1..Len(rs) : rs[i].ref = i

\* C14: searchAustLii reorders the scraped results only when determineSortMode
\* returned relevance and isCaseNameQuery(query) is true; in every other case
\* the results are returned in the order they were scraped.
C14_BoostOnlyForRelevantCaseNames ==
    (pc \in {"searchJade", "resolving", "formatted"}
         /\ ~(determineSortMode(query, options) = "relevance" /\ isCaseNameQuery(query)))
        => InScrapedOrder(austliiResults)

\* searchAustLii returned, in scraped order, results that boostTitleMatches
\* would have reordered: relevance was asked for, with a topic query
C14_Witness ==
    /\ pc = "formatted"
    /\ options.sortBy = "relevance"
    /\ ~isCaseNameQuery(query)
    /\ Len(austliiResults) >= 2
    /\ InScrapedOrder(austliiResults)
    /\ boostTitleMatches(austliiResults, query) # austliiResults

\* C17: the reportedCitation of every SearchResult of searchAustLii is the
\* reported citation found in its title or, when the title has none, the one
\* found in its summary; it is absent only when neither holds one.
C17_ReportedCitationFromTitleOrSummary ==
    \A i \in 1..Len(austliiResults) :
        LET FromTitleOrSummary(r, fromTitle) ==
                r.reportedCitation =
                    IF fromTitle # Undefined THEN fromTitle
                    ELSE IF r.summary # Undefined THEN extractReportedCitation(r.summary)
                    ELSE Undefined
        IN FromTitleOrSummary(austliiResults[i],
                              extractReportedCitation(austliiResults[i].title))

\* The url has a query parameter that is a search decoration.
HasSearchDecoration(url) ==
    \E key \in searchDecorations, sep \in {"?", "&"} :
        Includes(url, <<sep>> \o key \o <<"=">>)

\* C18: every SearchResult searchAustLii returns has an absolute url without
\* the search-decoration query parameters.
C18_AbsoluteUrlWithoutDecorations ==
    \A i \in 1..Len(austliiResults) :
        /\ \/ StartsWith(austliiResults[i].url, <<"h", "t", "t", "p", "s", ":", "/", "/">>)
           \/ StartsWith(austliiResults[i].url, <<"h", "t", "t", "p", ":", "/", "/">>)
        /\ ~HasSearchDecoration(austliiResults[i].url)

\* C19: every SearchResult searchAustLii returns is a primary source of the
\* requested type: no /journals/ segment in its url; for type case a /cases/
\* segment and no /legis/ segment; for type legislation a /legis/ segment and
\* no /cases/ segment.
C19_PrimarySourceOfRequestedType ==
    \A i \in 1..Len(austliiResults) :
        LET OfType(url, journals, cases, legis) ==
                /\ ~journals
                /\ options.type = "case" => (cases /\ ~legis)
                /\ options.type = "legislation" => (legis /\ ~cases)
        IN OfType(austliiResults[i].url,
                  Includes(austliiResults[i].url, <<"/", "j", "o", "u", "r", "n", "a", "l", "s", "/">>),
                  Includes(austliiResults[i].url, <<"/", "c", "a", "s", "e", "s", "/">>),
                  Includes(austliiResults[i].url, <<"/", "l", "e", "g", "i", "s", "/">>))

(***************************************************************************)
(* The pure components called for one request after another: SpecCalls.    *)
(* A request brings its own query, text and result list (of at most        *)
(* MaxCallLen results; the list given to mergeSearchResults as AustLII's   *)
(* is its entries of source austlii, the other its entries of source       *)
(* jade); one of the components is called with them and returns, and the   *)
(* next request follows.  The locals of a call (the Map seen, the arrays   *)
(* scored and output, the regular expression objects, which have neither   *)
(* the g nor the y flag) are created by the call.                          *)
(***************************************************************************)
\* The requests: the state each starts the call in.
Requests ==
    LET CallFields ==
            {[title |-> <<"L", "i", " ", "v", " ", "W", "a", "l", "e", "s">>,
              neutralCitation |-> <<"[", "1", "9", "9", "2", "]", " ", "H", "C", "A", " ", "2", "3">>, source |-> "austlii"],
             [title |-> <<"W", "a", "l", "e", "s", " ", "v", " ", "T", "a", "n", "g">>,
              neutralCitation |-> <<"[", "1", "9", "9", "2", "]", " ", "H", "C", "A", " ", "2", "3">>, source |-> "jade"],
             [title |-> <<"W", "a", "l", "e", "s", " ", "v", " ", "T", "a", "n", "g">>,
              neutralCitation |-> Undefined, source |-> "austlii"],
             [title |-> <<"R", "e", " ", "W", "a", "k", "i", "m">>,
              neutralCitation |-> <<"[", "2", "0", "2", "3", "]", " ", "H", "C", "A", " ", "1">>, source |-> "jade"]}
        Request(q, text, rs) ==
            [pc |-> "start", query |-> q, inputText |-> text, results |-> rs,
             austliiResults |-> SelectSeq(rs, LAMBDA r : r.source = "austlii"),
             jadeResults |-> SelectSeq(rs, LAMBDA r : r.source = "jade")]
    IN {Request(q, text, NewObjects(fs, 0)) :
           q \in BoostQueries,
           text \in {<<"M", "a", "b", "o", " ", "(", "1", "9", "9", "2", ")", " ", "1", "7", "5", " ", "C", "L", "R", " ", "1">>, <<"[", "2", "0", "2", "4", "]", " ", "H", "C", "A", " ", "2", "6">>},
           fs \in UNION {[1..k -> CallFields] : k \in 0..MaxCallLen}}

InitCalls ==
    /\ \E r \in Requests :
           /\ pc = r.pc
           /\ query = r.query
           /\ inputText = r.inputText
           /\ results = r.results
           /\ austliiResults = r.austliiResults
           /\ jadeResults = r.jadeResults
    /\ output = <<>>
    /\ output2 = <<>>
    /\ options = Undefined
    /\ sortMode = Undefined
    /\ caseNameQuery = Undefined
    /\ reportedCitation = Undefined
    /\ includeJade = FALSE
    /\ toResolve = <<>>
    /\ settlements = <<>>
    /\ formatted = <<>>
    /\ html = <<>>
    /\ error = <<>>
    /\ thrown = <<>>

\* The call has returned and its caller is done with what it returned: the
\* next request arrives.
NextRequest ==
    /\ pc # "start"
    /\ \E r \in Requests :
           /\ pc' = r.pc
           /\ query' = r.query
           /\ inputText' = r.inputText
           /\ results' = r.results
           /\ austliiResults' = r.austliiResults
           /\ jadeResults' = r.jadeResults
    /\ output' = <<>>
    /\ output2' = <<>>
    /\ options' = Undefined
    /\ sortMode' = Undefined
    /\ caseNameQuery' = Undefined
    /\ reportedCitation' = Undefined
    /\ UNCHANGED searchVars

NextCalls ==
    \/ CallIsCaseNameQuery
    \/ CallDetermineSortMode
    \/ CallExtractReportedCitation
    \/ CallBoostTitleMatches
    \/ CallDeduplicateResults
    \/ CallDeduplicateAgain
    \/ CallMergeSearchResults
    \/ NextRequest

SpecCalls == InitCalls /\ [][NextCalls]_vars

(***************************************************************************)
(* Claims about the failure of searchAustLii and about the elements it     *)
(* drops, checked under SpecAustLii, and about the terms of the score of   *)
(* boostTitleMatches, checked under SpecBoost.                             *)
(***************************************************************************)
\* C25: when the request of searchAustLii fails with an axios error,
\* searchAustLii rejects with an AustLiiError and no result list is returned;
\* an error that is not an axios error is rethrown as it was caught.
C25_FailureRejects ==
    /\ thrown # <<>> => pc = "rejected"
    /\ pc = "rejected" =>
           /\ Len(error) = 1 /\ Len(thrown) = 1
           /\ error[1].isAxiosError =>
                  /\ thrown[1].name = "AustLiiError"
                  /\ thrown[1].cause = error[1]
           /\ ~error[1].isAxiosError => thrown[1] = error[1]
           /\ austliiResults = <<>> /\ formatted = <<>>

\* the request failed with an axios error that carries a response
C25_Witness ==
    /\ pc = "rejected"
    /\ error[1].isAxiosError
    /\ error[1].response # <<>>
    /\ thrown[1].statusCode = 503

\* C26: the word-match part of the score of every result is 10 times the
\* number of words of the normalized query, longer than 2 characters, that
\* are words of the normalized title, each query word counted once.
C26_TenPerQueryWord ==
    LET QueryWordsFound(titleWords, words) ==
            {w \in {words[i] : i \in 1..Len(words)} :
                Len(w) > 2 /\ \E k \in 1..Len(titleWords) : titleWords[k] = w}
    IN pc = "boosted" =>
           \A i \in 1..Len(results) :
               WordScore(Normalized(results[i].title), Normalized(query))
                   = 10 * Cardinality(QueryWordsFound(
                                          SplitSpaces(Normalized(results[i].title)),
                                          SplitSpaces(Normalized(query))))

\* C27: the party bonus of a result is 100 when the query has the
\* party-vs-party shape and both extracted parties occur in the normalized
\* title, 20 when it has the shape and exactly one occurs, and 0 otherwise: 0
\* for every result when the query has not the shape.
C27_PartyBonusValues ==
    LET Occurring(normalizedTitle, m) ==
            Cardinality({k \in 1..2 : Includes(normalizedTitle, ToLowerCase(m[k]))})
        Expected(normalizedTitle, m) ==
            IF m = <<>> THEN 0
            ELSE CASE Occurring(normalizedTitle, m) = 2 -> 100
                   [] Occurring(normalizedTitle, m) = 1 -> 20
                   [] OTHER -> 0
    IN pc = "boosted" =>
           \A i \in 1..Len(results) :
               PartyBonus(Normalized(results[i].title), query)
                   = Expected(Normalized(results[i].title), PartyMatch(query))

\* one call has scored a result with both parties, one with one party and one
\* with none
C27_Witness ==
    /\ pc = "boosted"
    /\ PartyMatch(query) # <<>>
    /\ {PartyBonus(Normalized(results[i].title), query) : i \in 1..Len(results)}
           = {0, 20, 100}

\* C28: an element of the response whose link has an empty text, or that has
\* no link address, raises no error, and the results searchAustLii returns
\* are those it returns for the response without that element.
C28_MalformedRecordDropped ==
    LET Malformed(li) == Trim(li.text) = <<>> \/ AbsoluteUrl(li.href) = <<>>
        Without(page, i) == SubSeq(page, 1, i - 1) \o SubSeq(page, i + 1, Len(page))
    IN pc \in {"formatted", "searchJade"} =>
           \A i \in 1..Len(html) :
               Malformed(html[i]) =>
                   /\ thrown = <<>>
                   /\ austliiResults = searchAustLii(query, options, Without(html, i), 0)

\* AustLII answered with a link without a text, which has an address, before
\* an element that became the one result
C28_Witness ==
    /\ pc = "formatted"
    /\ Len(html) = 2
    /\ html[1].href # Undefined /\ Trim(html[1].text) = <<>>
    /\ Len(austliiResults) = 1

(***************************************************************************)
(* Claims about mergeSearchResults, checked under SpecDedup, and about the  *)
(* purity of the components, checked under SpecCalls.                      *)
(***************************************************************************)
\* C22: mergeSearchResults tolerates a jade list that covers only some, or
\* none, of the AustLII results: the call returns, every AustLII entry
\* without a neutralCitation is in the output, and every citation of the
\* AustLII list that the jade list does not hold is the citation of an entry
\* of the output.
C22_PartialJadeListTolerated ==
    pc = "merged" =>
        /\ \A i \in 1..Len(austliiResults) :
               ~Truthy(austliiResults[i].neutralCitation)
                   => \E k \in 1..Len(output) : output[k] = austliiResults[i]
        /\ \A c \in CitationsOf(austliiResults) \ CitationsOf(jadeResults) :
               WithCitation(output, c) # {}

\* the jade list held one of two citations of the AustLII list, and the merge
\* returned
C22_Witness ==
    /\ pc = "merged"
    /\ CitationsOf(austliiResults) \cap CitationsOf(jadeResults) # {}
    /\ CitationsOf(austliiResults) \ CitationsOf(jadeResults) # {}

\* A call of boostTitleMatches, deduplicateResults or mergeSearchResults
\* returns in this step.
ReconcilerOrBoosterReturns ==
    \/ pc = "start" /\ pc' \in {"boosted", "deduplicated", "merged"}
    \/ pc = "deduplicated" /\ pc' = "deduplicated twice"

C29_JadeThenRemainingAustLii ==
    LET rs == jadeResults \o austliiResults
        Before(k) == DedupLoop(SubSeq(rs, 1, k - 1), 1, [seen |-> EmptyMap, output |-> <<>>])
        Replaces(k) ==
            /\ Truthy(rs[k].neutralCitation)
            /\ MapHas(Before(k).seen, rs[k].neutralCitation)
            /\ rs[k].source = "jade"
            /\ MapGet(Before(k).seen, rs[k].neutralCitation).source # "jade"
    IN (/\ pc = "merged"
        /\ \A i \in 1..Len(austliiResults) : austliiResults[i].source = "austlii"
        /\ \A i \in 1..Len(jadeResults) : jadeResults[i].source = "jade")
           => /\ output = deduplicateResults(jadeResults)
                              \o SelectSeq(deduplicateResults(austliiResults),
                                           LAMBDA r : r.neutralCitation
                                                          \notin CitationsOf(jadeResults))
              /\ \A i, j \in 1..Len(output) :
                     (output[i].source = "austlii" /\ output[j].source = "jade") => j < i
              /\ \A k \in 1..Len(rs) : ~Replaces(k)

\* an AustLII list and a jade.io list were merged that share a citation, the
\* AustLII list having one more citation
C29_Witness ==
    /\ pc = "merged"
    /\ \A i \in 1..Len(austliiResults) : austliiResults[i].source = "austlii"
    /\ \A i \in 1..Len(jadeResults) : jadeResults[i].source = "jade"
    /\ CitationsOf(austliiResults) \cap CitationsOf(jadeResults) # {}
    /\ CitationsOf(austliiResults) \ CitationsOf(jadeResults) # {}
    /\ Len(output) = 2

(***************************************************************************)
(* Claims about searchJade, checked under SpecJade.                        *)
(***************************************************************************)
\* the lookups in flight: started and not yet settled
InFlight == {i \in 1..Len(settlements) : settlements[i].status = "pending"}

\* the results of AustLII that carry a neutral citation
Candidates == SelectSeq(austliiResults, LAMBDA r : Truthy(r.neutralCitation))

\* C20: during one searchJade call at most five citation lookups are in
\* flight at any moment, however many candidates carry a neutral citation:
\* lookups are started only for the first five of them, and the call returns
\* at most five results.
C20_AtMostFiveLookups ==
    /\ Cardinality(InFlight) <= 5
    /\ pc = "resolving" =>
           /\ Len(settlements) = Len(toResolve)
           /\ toResolve = SubSeq(Candidates, 1, Min({5, Len(Candidates)}))
    /\ pc = "formatted" => Len(formatted) <= 5

\* AustLII returned more than five candidates, and five lookups are in flight
C20_Witness ==
    /\ pc = "resolving"
    /\ Len(Candidates) > 5
    /\ Cardinality(InFlight) = 5

\* the lookups that gave a result, in candidate order
Resolved == SelectSeq([i \in 1..Len(settlements) |-> i],
                      LAMBDA i : settlements[i].status = "fulfilled"
                                     /\ settlements[i].value # <<>>)

\* C21: a lookup of searchJade that fails or finds no article only omits its
\* own candidate: once every lookup has settled, in whatever order, searchJade
\* returns the result of each of the other lookups, in candidate order; and
\* searchJade never rejects: when the AustLII search fails it returns the
\* empty list.
C21_FailedLookupOmitsOnlyItself ==
    /\ pc # "rejected"
    /\ pc = "formatted" =>
           /\ Len(formatted) = Len(Resolved)
           /\ \A k \in 1..Len(Resolved) :
                  formatted[k] = settlements[Resolved[k]].value[1]

\* searchJade returned the results of the first and the third lookup, the
\* second having given none
C21_Witness ==
    /\ pc = "formatted"
    /\ Len(settlements) >= 3
    /\ Resolved = <<1, 3>>
    /\ Len(formatted) = 2

(***************************************************************************)
(* Claim about the merge of the handler, checked under SpecSearch.         *)
(***************************************************************************)
\* C30: with includeJade set, the merged list never holds both an AustLII
\* result and the jade.io entry that was resolved from its citation: the
\* result is there once, as its jade.io entry.
C30_ResolvedResultOnce ==
    LET Holds(list, r) == \E k \in 1..Len(list) : list[k] = r
    IN (pc = "formatted" /\ includeJade) =>
           \A i \in 1..Len(Resolved) :
               \A a \in 1..Len(austliiResults) :
                   austliiResults[a].neutralCitation
                           = toResolve[Resolved[i]].neutralCitation
                       => /\ ~Holds(formatted, austliiResults[a])
                          /\ Holds(formatted, settlements[Resolved[i]].value[1])

====
